---- MODULE Spec2Model ----
(***************************************************************************)
(* Seat reservation and checkout reconciliation of the ticket-sales        *)
(* backend: src/routes/seats.js (reserve / release / confirm and the        *)
(* checkout routes), src/services/cartCheckoutService.js (CheckoutService), *)
(* src/services/emailService.js (GuestCheckoutService) and                  *)
(* src/services/zimPaymentService.js (payments, webhook, refund).           *)
(*                                                                         *)
(* Every handler is an async function: between two awaited storage calls    *)
(* any other request may run.  A handler is therefore modelled as a         *)
(* process whose steps are its awaited storage writes; reads of rows that   *)
(* no handler ever changes (existence, owner, seat_ids of a reservation)    *)
(* are folded into the next step that reads mutable state.                  *)
(***************************************************************************)
EXTENDS Integers, Sequences, FiniteSets, TLC

VARIABLES now, seats, reservations, payments, procs, out,
          carts, items, checkouts, orders, tickets, verifications

vars == <<now, seats, reservations, payments, procs, out,
          carts, items, checkouts, orders, tickets, verifications>>

(* the tables of the seat routes and those of the cart and checkout services *)
seatVars == <<seats, reservations>>
shopVars == <<carts, items, checkouts, orders, tickets, verifications>>

(* ------------------------------ bounds -------------------------------- *)
NumProcs == 2
MaxRes == 2
MaxPay == 1
MaxTime == 40
MaxCheckouts == 2
MaxOrders == 2
MaxVerifs == 1
MaxCarts == 2
MaxItems == 2
MaxTickets == 2

(* -------------------------- program constants ------------------------- *)
\* 15 * 60 * 1000 ms, in minutes
ReservationTTL == 15
\* 30 * 60 * 1000 ms, in minutes
CheckoutTTL == 30
\* the clock is observed every TickMinutes minutes
TickMinutes == 20

Procs == 1..NumProcs
Users == {"u1", "u2"}
Seats == {"A", "B"}
Events == {"e1"}
EventIds == {"e1", "e0"}
Null == "null"

Range(s) == {s[i] : i \in 1..Len(s)}

(* the seat-id lists requests carry: none, one seat, a block, a repeated id *)
SeatRequests == {<<>>, <<"A">>, <<"A", "B">>, <<"A", "A">>}

(* one row of table seats: status, reservation_id, payment_id *)
SeatRow(st, rid, pid) == [status |-> st, reservation_id |-> rid, payment_id |-> pid]

(* a request slot with no handler running *)
Idle == [pc |-> "idle", user |-> Null, rid |-> 0, pid |-> 0, seatIds |-> <<>>,
         cid |-> 0, oid |-> 0, snap |-> <<>>, item |-> 0, qty |-> 0, total |-> 0,
         chk |-> <<>>, code |-> Null, failed |-> FALSE]

(* no response was sent by the last step *)
NoOut == [op |-> "none", code |-> 0, msg |-> "", rid |-> 0, ids |-> <<>>,
          n1 |-> 0, n2 |-> 0, n3 |-> 0, pid |-> 0, email |-> Null, confirmationCode |-> Null,
          failed |-> FALSE]

Respond(op, code, msg, rid, ids, n1, n2) ==
    [op |-> op, code |-> code, msg |-> msg, rid |-> rid, ids |-> ids,
     n1 |-> n1, n2 |-> n2, n3 |-> 0, pid |-> 0, email |-> Null, confirmationCode |-> Null,
     failed |-> FALSE]

InFlight(pcs) == {p \in Procs : procs[p].pc \in pcs}

(* a new request is served by the first free slot (the slots are interchangeable) *)
FreeSlot(p) == procs[p].pc = "idle" /\ \A q \in Procs : q < p => procs[q].pc # "idle"

(* ---------------------------- initial state --------------------------- *)
Init ==
    /\ now = 0
    /\ seats = [s \in Seats |-> SeatRow("available", 0, 0)]
    /\ reservations = <<>>
    /\ payments = <<>>
    /\ procs = [p \in Procs |-> Idle]
    /\ out = NoOut
    /\ carts = <<>>
    /\ items = <<>>
    /\ checkouts = <<>>
    /\ orders = <<>>
    /\ tickets = <<>>
    /\ verifications = <<>>

(* ------------------------------- reserve ------------------------------ *)
(* the availability read without its .where('status', 'available') *)
SeatsToReserve_NoStatusFilter(ids) == Range(ids)

(* db('seats').whereIn('id', seatIds).where('event_id', eventId)
     .where('status', 'available'): one row per distinct matching seat *)
SeatsToReserve(ids) == {s \in Range(ids) : seats[s].status = "available"}

(* POST /reserve up to the decision taken on the rows read *)
ReserveCall(p, u, e, ids) ==
    /\ FreeSlot(p)
    /\ Len(reservations) + Cardinality(InFlight({"reserve_insert"})) < MaxRes
    /\ UNCHANGED <<now, seats, reservations, payments, shopVars>>
    /\ IF Len(ids) = 0
       THEN /\ out' = Respond("reserve", 400, "eventId and seatIds array are required", 0, ids, 0, 0)
            /\ UNCHANGED procs
       ELSE IF e \notin Events
       THEN /\ out' = Respond("reserve", 404, "Event not found", 0, ids, 0, 0)
            /\ UNCHANGED procs
       ELSE IF Cardinality(SeatsToReserve(ids)) # Len(ids)
       THEN /\ out' = Respond("reserve", 400, "One or more seats are not available", 0, ids,
                              Cardinality(SeatsToReserve(ids)), Len(ids))
            /\ UNCHANGED procs
       ELSE /\ out' = NoOut
            /\ procs' = [procs EXCEPT ![p] = [Idle EXCEPT !.pc = "reserve_insert",
                                                           !.user = u, !.seatIds = ids]]

(* db('seat_reservations').insert({... status: 'pending', expires_at}) *)
ReserveInsert(p) ==
    /\ procs[p].pc = "reserve_insert"
    /\ reservations' = Append(reservations,
          [user_id |-> procs[p].user, seat_ids |-> procs[p].seatIds, status |-> "pending",
           expires_at |-> now + ReservationTTL, payment_id |-> 0])
    /\ procs' = [procs EXCEPT ![p].pc = "reserve_seats", ![p].rid = Len(reservations) + 1]
    /\ out' = NoOut
    /\ UNCHANGED <<now, seats, payments, shopVars>>

(* db('seats').whereIn('id', seatIds).update({status: 'reserved', ...}) *)
ReserveSeatsUpdate(p, s) ==
    IF s \in Range(procs[p].seatIds)
    THEN [seats[s] EXCEPT !.status = "reserved", !.reservation_id = procs[p].rid]
    ELSE seats[s]

ReserveSeats(p) ==
    /\ procs[p].pc = "reserve_seats"
    /\ seats' = [s \in Seats |-> ReserveSeatsUpdate(p, s)]
    /\ out' = Respond("reserve", 201, "Seats reserved successfully", procs[p].rid,
                      procs[p].seatIds, Len(procs[p].seatIds), 0)
    /\ procs' = [procs EXCEPT ![p] = Idle]
    /\ UNCHANGED <<now, reservations, payments, shopVars>>

(* ------------------------------- release ------------------------------ *)
(* the reservation read without its .where('user_id', userId) *)
FindReservation_AnyUser(rid, u) == rid \in 1..Len(reservations)

(* db('seat_reservations').where('id', reservationId).where('user_id', userId).first() *)
FindReservation(rid, u) ==
    rid \in 1..Len(reservations) /\ reservations[rid].user_id = u

(* POST /release up to the status check on the reservation row read *)
(* reservation.status !== 'pending' rejects the release *)
ReleaseAllowed_AnyStatus(rid) == TRUE

ReleaseAllowed(rid) == reservations[rid].status = "pending"

ReleaseCall(p, u, rid) ==
    /\ FreeSlot(p)
    /\ UNCHANGED <<now, seats, reservations, payments, shopVars>>
    /\ IF ~FindReservation(rid, u)
       THEN /\ out' = Respond("release", 404, "Reservation not found", rid, <<>>, 0, 0)
            /\ UNCHANGED procs
       ELSE IF ~ReleaseAllowed(rid)
       THEN /\ out' = Respond("release", 400,
                              "Cannot release " \o reservations[rid].status \o " reservation",
                              rid, <<>>, 0, 0)
            /\ UNCHANGED procs
       ELSE /\ out' = NoOut
            /\ procs' = [procs EXCEPT ![p] = [Idle EXCEPT !.pc = "release_seats", !.user = u,
                                    !.rid = rid, !.seatIds = reservations[rid].seat_ids]]

(* db('seats').whereIn('id', seatIds).update({status: 'available', reservation_id: null}) *)
ReleaseSeatsUpdate(p, s) ==
    IF s \in Range(procs[p].seatIds)
    THEN [seats[s] EXCEPT !.status = "available", !.reservation_id = 0]
    ELSE seats[s]

ReleaseSeats(p) ==
    /\ procs[p].pc = "release_seats"
    /\ seats' = [s \in Seats |-> ReleaseSeatsUpdate(p, s)]
    /\ procs' = [procs EXCEPT ![p].pc = "release_reservation"]
    /\ out' = NoOut
    /\ UNCHANGED <<now, reservations, payments, shopVars>>

(* db('seat_reservations').where('id', reservationId).update({status: 'released'}) *)
ReleaseReservation(p) ==
    /\ procs[p].pc = "release_reservation"
    /\ reservations' = [reservations EXCEPT ![procs[p].rid].status = "released"]
    /\ out' = Respond("release", 200, "Seats released successfully", procs[p].rid,
                      procs[p].seatIds, Len(procs[p].seatIds), 0)
    /\ procs' = [procs EXCEPT ![p] = Idle]
    /\ UNCHANGED <<now, seats, payments, shopVars>>

(* ------------------------------- confirm ------------------------------ *)
(* db('payments').where('id', paymentId).where('user_id', userId).first() *)
FindPayment(pid, u) ==
    pid \in 1..Len(payments) /\ payments[pid].user_id = u

(* the checks POST /confirm makes on the reservation row it read *)
ConfirmReservationOk(rid, u) == FindReservation(rid, u)

(* payment.status !== 'completed' rejects the confirmation *)
PaymentCompleted_AnyStatus(pid) == TRUE

PaymentCompleted(pid) == payments[pid].status = "completed"

(* POST /confirm up to the status check on the payment row read *)
ConfirmCall(p, u, rid, pid) ==
    /\ FreeSlot(p)
    /\ UNCHANGED <<now, seats, reservations, payments, shopVars>>
    /\ IF ~ConfirmReservationOk(rid, u)
       THEN /\ out' = Respond("confirm", 404, "Reservation not found", rid, <<>>, pid, 0)
            /\ UNCHANGED procs
       ELSE IF ~FindPayment(pid, u)
       THEN /\ out' = Respond("confirm", 404, "Payment not found", rid, <<>>, pid, 0)
            /\ UNCHANGED procs
       ELSE IF ~PaymentCompleted(pid)
       THEN /\ out' = Respond("confirm", 400, "Payment is not completed", rid, <<>>, pid, 0)
            /\ UNCHANGED procs
       ELSE /\ out' = NoOut
            /\ procs' = [procs EXCEPT ![p] = [Idle EXCEPT !.pc = "confirm_seats", !.user = u,
                          !.rid = rid, !.pid = pid, !.seatIds = reservations[rid].seat_ids]]

(* db('seats').whereIn('id', seatIds).update({status: 'sold', payment_id, reservation_id: null}) *)
ConfirmSeatsUpdate(p, s) ==
    IF s \in Range(procs[p].seatIds)
    THEN [seats[s] EXCEPT !.status = "sold", !.payment_id = procs[p].pid, !.reservation_id = 0]
    ELSE seats[s]

ConfirmSeats(p) ==
    /\ procs[p].pc = "confirm_seats"
    /\ seats' = [s \in Seats |-> ConfirmSeatsUpdate(p, s)]
    /\ procs' = [procs EXCEPT ![p].pc = "confirm_reservation"]
    /\ out' = NoOut
    /\ UNCHANGED <<now, reservations, payments, shopVars>>

(* db('seat_reservations').where('id', reservationId).update({status: 'confirmed', payment_id}) *)
ConfirmReservation(p) ==
    /\ procs[p].pc = "confirm_reservation"
    /\ reservations' = [reservations EXCEPT ![procs[p].rid].status = "confirmed",
                                            ![procs[p].rid].payment_id = procs[p].pid]
    /\ out' = Respond("confirm", 200, "Seats confirmed successfully", procs[p].rid,
                      procs[p].seatIds, Len(procs[p].seatIds), 0)
    /\ procs' = [procs EXCEPT ![p] = Idle]
    /\ UNCHANGED <<now, seats, payments, shopVars>>

(* ------------------------------ payments ------------------------------ *)
(* GATEWAY_CONFIG: minAmount and maxAmount of each method *)
MinAmount(m) == 1

MaxAmount(m) ==
    CASE m = "ecocash" -> 5000
      [] m = "innbucks" -> 10000
      [] m = "telecash" -> 5000
      [] m = "zimswitch" -> 50000

Methods == {"ecocash", "innbucks", "telecash", "zimswitch"}

(* initiatePayment: a pending payment and its initiated transaction *)
InitiatePayment(u, amount, m) ==
    /\ Len(payments) < MaxPay
    /\ UNCHANGED <<now, seats, reservations, procs, shopVars>>
    /\ IF m \notin Methods
       THEN /\ out' = Respond("initiatePayment", 500, "Invalid payment method", 0, <<>>, amount, 0)
            /\ UNCHANGED payments
       ELSE IF amount < MinAmount(m) \/ amount > MaxAmount(m)
       THEN /\ out' = Respond("initiatePayment", 500, "Amount must be between", 0, <<>>, amount, 0)
            /\ UNCHANGED payments
       ELSE /\ payments' = Append(payments, [user_id |-> u, amount |-> amount, method |-> m,
                                             status |-> "pending", txn_status |-> "initiated"])
            /\ out' = Respond("initiatePayment", 200, "pending", 0, <<>>, Len(payments) + 1, 0)

(* the mapping with the provider's status compared without regard to case *)
PaymentStatusOf_CaseFolded(status) ==
    IF status \in {"success", "completed", "SUCCESS"} THEN "completed"
    ELSE IF status \in {"pending", "processing", "PENDING"} THEN "processing"
    ELSE "failed"

(* handlePaymentCallback: the provider's status mapped to the payment status *)
PaymentStatusOf(status) ==
    IF status \in {"success", "completed", "SUCCESS"} THEN "completed"
    ELSE IF status \in {"pending", "processing"} THEN "processing"
    ELSE "failed"

PaymentCallback(pid, status) ==
    /\ pid \in 1..Len(payments)
    /\ payments' = [payments EXCEPT ![pid].status = PaymentStatusOf(status),
                                    ![pid].txn_status = PaymentStatusOf(status)]
    /\ out' = Respond("webhook", 200, PaymentStatusOf(status), 0, <<>>, pid, 0)
    /\ UNCHANGED <<now, seats, reservations, procs, shopVars>>

(* processRefund: only a completed payment is refunded *)
ProcessRefund(pid) ==
    /\ pid \in 1..Len(payments)
    /\ UNCHANGED <<now, seats, reservations, procs, shopVars>>
    /\ IF payments[pid].status # "completed"
       THEN /\ out' = Respond("refund", 500, "Payment not found or already refunded", 0, <<>>, pid, 0)
            /\ UNCHANGED payments
       ELSE /\ payments' = [payments EXCEPT ![pid].status = "refunded"]
            /\ out' = Respond("refund", 200, "initiated", 0, <<>>, pid, 0)

(* ----------------------------- fraud gate ----------------------------- *)
(* checkAmountRange: the amount lies in the band of the payment's method *)
CheckAmountRange(pay) ==
    pay.amount >= MinAmount(pay.method) /\ pay.amount <= MaxAmount(pay.method)

(* checkDeviceConsistency and checkGeoLocation: stubs that pass *)
CheckDeviceConsistency(pay) == TRUE

(* points for an amount outside the band of the method *)
AmountRangePoints == 20
(* points for a large transaction *)
HighValuePoints == 10
(* amounts above it count as large *)
HighValueThreshold == 10000
(* points for a device inconsistency *)
DevicePoints == 15
(* scores below it are legitimate *)
LegitimateBelow == 50

(* performFraudChecks without the points of the amount band *)
PerformFraudChecks_NoRange(pay) ==
    (IF pay.amount > HighValueThreshold THEN HighValuePoints ELSE 0)
    + (IF ~CheckDeviceConsistency(pay) THEN DevicePoints ELSE 0)

(* performFraudChecks *)
PerformFraudChecks(pay) ==
    (IF ~CheckAmountRange(pay) THEN AmountRangePoints ELSE 0)
    + (IF pay.amount > HighValueThreshold THEN HighValuePoints ELSE 0)
    + (IF ~CheckDeviceConsistency(pay) THEN DevicePoints ELSE 0)

(* completed payments of the user a payment may have within the hour *)
FrequencyLimit == 5

(* checkTransactionFrequency: the completed payments of the user are counted
   (all rows of the model are within the hour); a failing query counts as a pass *)
CheckTransactionFrequency(pay) ==
    Cardinality({q \in 1..Len(payments) : /\ payments[q].user_id = pay.user_id
                                          /\ payments[q].status = "completed"})
      <= FrequencyLimit

CheckGeoLocation(pay) == TRUE

(* the row verifyPayment inserts into payment_verifications *)
VerificationRow(pid) ==
    [payment_id |-> pid,
     fraud_score |-> PerformFraudChecks(payments[pid]),
     is_legitimate |-> PerformFraudChecks(payments[pid]) < LegitimateBelow,
     checks_performed |-> [amountRange |-> CheckAmountRange(payments[pid]),
                           frequencyCheck |-> CheckTransactionFrequency(payments[pid]),
                           geoCheck |-> CheckGeoLocation(payments[pid]),
                           deviceCheck |-> CheckDeviceConsistency(payments[pid])]]

(* the table after a verification that is not logged *)
LogVerification_None(pid) == verifications

(* db('payment_verifications').insert({...}) *)
LogVerification(pid) == Append(verifications, VerificationRow(pid))

(* the payments after a verification that marks the payment with its verdict *)
PaymentsAfterVerify_Marked(pid) ==
    [payments EXCEPT ![pid].status =
        IF PerformFraudChecks(payments[pid]) < LegitimateBelow THEN "verified"
        ELSE "review_required"]

(* verifyPayment issues no update of table payments *)
PaymentsAfterVerify(pid) == payments

(* verifyPayment: scores the payment and logs one payment_verifications row *)
VerifyPayment(pid) ==
    /\ Len(verifications) < MaxVerifs
    /\ UNCHANGED <<now, seatVars, procs, carts, items, checkouts, orders, tickets>>
    /\ IF pid \notin 1..Len(payments)
       THEN /\ out' = [Respond("verify", 404, "Payment verification failed: Payment not found", 0, <<>>, 0, 0)
                         EXCEPT !.pid = pid]
            /\ UNCHANGED <<payments, verifications>>
       ELSE /\ verifications' = LogVerification(pid)
            /\ payments' = PaymentsAfterVerify(pid)
            /\ out' = [Respond("verify", 200,
                         IF PerformFraudChecks(payments[pid]) < LegitimateBelow
                         THEN "verified" ELSE "review_required",
                         0, <<>>, PerformFraudChecks(payments[pid]), 0) EXCEPT !.pid = pid]

(* -------------------------------- clock ------------------------------- *)
Tick ==
    /\ now + TickMinutes <= MaxTime
    /\ now' = now + TickMinutes
    /\ out' = NoOut
    /\ UNCHANGED <<seats, reservations, payments, procs, shopVars>>

Next ==
    \/ \E p \in Procs, u \in Users, e \in EventIds, ids \in SeatRequests :
          ReserveCall(p, u, e, ids)
    \/ \E p \in Procs : ReserveInsert(p)
    \/ \E p \in Procs : ReserveSeats(p)
    \/ \E p \in Procs, u \in Users, rid \in 1..MaxRes : ReleaseCall(p, u, rid)
    \/ \E p \in Procs : ReleaseSeats(p)
    \/ \E p \in Procs : ReleaseReservation(p)
    \/ \E p \in Procs, u \in Users, rid \in 1..MaxRes, pid \in 1..MaxPay :
          ConfirmCall(p, u, rid, pid)
    \/ \E p \in Procs : ConfirmSeats(p)
    \/ \E p \in Procs : ConfirmReservation(p)
    \/ \E u \in Users : InitiatePayment(u, 100, "ecocash")
    \/ \E pid \in 1..MaxPay, st \in {"success", "failed"} : PaymentCallback(pid, st)

Spec == Init /\ [][Next]_vars

(* ============================ checkout sessions ========================= *)
(* db('shopping_carts').where('user_id', userId).where('status', 'active').first() *)
ActiveCarts(u) == {c \in 1..Len(carts) : carts[c].user_id = u /\ carts[c].status = "active"}

ActiveCart(u) == CHOOSE c \in ActiveCarts(u) : \A d \in ActiveCarts(u) : c <= d

(* db('shopping_cart_items').where('cart_id', cartId), in insertion order *)
CartItems(c) == SelectSeq(items, LAMBDA it : it.cart_id = c)

(* one row of table checkouts, as initiateCheckout / initiateGuestCheckout write it *)
CheckoutRow(u, c, guest, cart) ==
    [user_id |-> u, cart_id |-> c, is_guest |-> guest, status |-> "pending",
     subtotal |-> cart.total_amount, discount_amount |-> cart.discount_amount,
     total_amount |-> cart.total_amount - cart.discount_amount,
     expires_at |-> now + CheckoutTTL, order_id |-> 0]

(* rows about to be inserted by handlers that have passed their checks *)
CheckoutsToCome == Len(checkouts) + Cardinality(InFlight({"init_insert", "guest_insert"}))

(* CheckoutService.initiateCheckout up to the checks on the cart row read *)
InitiateCall(p, u, billing) ==
    /\ FreeSlot(p)
    /\ CheckoutsToCome < MaxCheckouts
    /\ UNCHANGED <<now, seatVars, payments, shopVars>>
    /\ IF ActiveCarts(u) = {} \/ carts[ActiveCart(u)].total_amount <= 0
       THEN /\ out' = Respond("initiate", 400, "Cart is empty", 0, <<>>, 0, 0)
            /\ UNCHANGED procs
       ELSE IF ~billing
       THEN /\ out' = Respond("initiate", 400, "Billing information is required", 0, <<>>, 0, 0)
            /\ UNCHANGED procs
       ELSE /\ out' = NoOut
            /\ procs' = [procs EXCEPT ![p] = [Idle EXCEPT !.pc = "init_insert", !.user = u,
                             !.cid = ActiveCart(u), !.snap = <<carts[ActiveCart(u)]>>]]

(* db('checkouts').insert(checkout) with the amounts of the cart row read *)
InitiateInsert(p) ==
    /\ procs[p].pc = "init_insert"
    /\ checkouts' = Append(checkouts,
                           CheckoutRow(procs[p].user, procs[p].cid, FALSE, procs[p].snap[1]))
    /\ out' = [Respond("initiate", 201, "Checkout initiated", Len(checkouts) + 1, <<>>, 0, 0)
                 EXCEPT !.n3 = procs[p].snap[1].total_amount - procs[p].snap[1].discount_amount]
    /\ procs' = [procs EXCEPT ![p] = Idle]
    /\ UNCHANGED <<now, seatVars, payments, carts, items, orders, tickets, verifications>>

(* GuestCheckoutService.getGuestCart: the cart row, if it is a guest cart *)
IsGuestCart(c) == c \in 1..Len(carts) /\ carts[c].is_guest

(* GuestCheckoutService.initiateGuestCheckout up to the checks on the cart read *)
GuestInitiateCall(p, c, guestInfo, billing) ==
    /\ FreeSlot(p)
    /\ CheckoutsToCome < MaxCheckouts
    /\ UNCHANGED <<now, seatVars, payments, shopVars>>
    /\ IF ~guestInfo
       THEN /\ out' = Respond("guestInitiate", 400,
                              "Email, first name, last name, and phone are required", 0, <<>>, 0, 0)
            /\ UNCHANGED procs
       ELSE IF ~IsGuestCart(c) \/ Len(CartItems(c)) = 0
       THEN /\ out' = Respond("guestInitiate", 400, "Cart is empty", 0, <<>>, 0, 0)
            /\ UNCHANGED procs
       ELSE IF ~billing
       THEN /\ out' = Respond("guestInitiate", 400, "Billing information is required", 0, <<>>, 0, 0)
            /\ UNCHANGED procs
       ELSE /\ out' = NoOut
            /\ procs' = [procs EXCEPT ![p] = [Idle EXCEPT !.pc = "guest_insert",
                                                           !.cid = c, !.snap = <<carts[c]>>]]

GuestInitiateInsert(p) ==
    /\ procs[p].pc = "guest_insert"
    /\ checkouts' = Append(checkouts, CheckoutRow(Null, procs[p].cid, TRUE, procs[p].snap[1]))
    /\ out' = [Respond("guestInitiate", 200, "Checkout initiated", Len(checkouts) + 1, <<>>, 0, 0)
                 EXCEPT !.n3 = procs[p].snap[1].total_amount - procs[p].snap[1].discount_amount]
    /\ procs' = [procs EXCEPT ![p] = Idle]
    /\ UNCHANGED <<now, seatVars, payments, carts, items, orders, tickets, verifications>>

(* db('checkouts').where('id', checkoutId).where('user_id', userId)
     .where('status', 'pending').first() *)
FindPendingCheckout(cid, u) ==
    /\ cid \in 1..Len(checkouts)
    /\ checkouts[cid].user_id = u
    /\ checkouts[cid].status = "pending"

(* db('payments').where('id', payment_intent_id).where('user_id', userId)
     .where('status', 'completed').first() *)
FindCompletedPayment_NoStatus(pid, u) == FindPayment(pid, u)

FindCompletedPayment(pid, u) ==
    FindPayment(pid, u) /\ payments[pid].status = "completed"

(* orders about to be inserted by completions that are past the checkout read *)
OrdersToCome == Len(orders) + Cardinality(InFlight({"cc_payment", "cc_items", "cc_order"}))

(* CheckoutService.completeCheckout: the read of the checkout row *)
CompleteCall(p, u, cid, pid) ==
    /\ FreeSlot(p)
    /\ OrdersToCome < MaxOrders
    /\ UNCHANGED <<now, seatVars, payments, shopVars>>
    /\ IF ~FindPendingCheckout(cid, u)
       THEN /\ out' = [Respond("complete", 400, "Checkout not found or already processed",
                               cid, <<>>, 0, 0) EXCEPT !.pid = pid]
            /\ UNCHANGED procs
       ELSE /\ out' = NoOut
            /\ procs' = [procs EXCEPT ![p] = [Idle EXCEPT !.pc = "cc_payment", !.user = u,
                                                           !.cid = cid, !.pid = pid,
                                                           !.chk = <<checkouts[cid]>>]]

(* the read of the payment row *)
CompletePayment(p) ==
    /\ procs[p].pc = "cc_payment"
    /\ UNCHANGED <<now, seatVars, payments, shopVars>>
    /\ IF ~FindCompletedPayment(procs[p].pid, procs[p].user)
       THEN /\ out' = [Respond("complete", 400, "Payment not found or not completed",
                               procs[p].cid, <<>>, 0, 0) EXCEPT !.pid = procs[p].pid]
            /\ procs' = [procs EXCEPT ![p] = Idle]
       ELSE /\ out' = NoOut
            /\ procs' = [procs EXCEPT ![p].pc = "cc_items"]

(* the read of the cart items of the checkout's cart *)
CompleteItems(p) ==
    /\ procs[p].pc = "cc_items"
    /\ procs' = [procs EXCEPT ![p].pc = "cc_order",
                              ![p].snap = CartItems(checkouts[procs[p].cid].cart_id)]
    /\ out' = NoOut
    /\ UNCHANGED <<now, seatVars, payments, shopVars>>

(* subtotal, discount_amount and total_amount of the order: in the variant,
   those of the cart as it is when the order is written *)
OrderAmounts_FromCart(p) ==
    LET cart == carts[procs[p].chk[1].cart_id]
    IN  [subtotal |-> cart.total_amount, discount_amount |-> cart.discount_amount,
         total_amount |-> cart.total_amount - cart.discount_amount]

(* checkout.subtotal, checkout.discount_amount, checkout.total_amount of the
   checkout row read at the start of completeCheckout *)
OrderAmounts(p) ==
    [subtotal |-> procs[p].chk[1].subtotal,
     discount_amount |-> procs[p].chk[1].discount_amount,
     total_amount |-> procs[p].chk[1].total_amount]

(* db('orders').insert(order): the amounts are those of the checkout row read;
   the guest columns are not written and keep their defaults *)
CompleteOrder(p) ==
    /\ procs[p].pc = "cc_order"
    /\ orders' = Append(orders, [user_id |-> procs[p].user, checkout_id |-> procs[p].cid,
                                 payment_id |-> procs[p].pid, status |-> "confirmed",
                                 subtotal |-> OrderAmounts(p).subtotal,
                                 discount_amount |-> OrderAmounts(p).discount_amount,
                                 total_amount |-> OrderAmounts(p).total_amount,
                                 is_guest |-> FALSE, guest_email |-> Null,
                                 confirmation_code |-> Null])
    /\ procs' = [procs EXCEPT ![p].pc = "cc_tickets", ![p].oid = Len(orders) + 1]
    /\ out' = NoOut
    /\ UNCHANGED <<now, seatVars, payments, carts, items, checkouts, tickets, verifications>>

(* the variant issues one ticket per cart item, whatever its quantity *)
RECURSIVE TicketsFor_OnePerItem(_, _)
TicketsFor_OnePerItem(its, oid) ==
    IF its = <<>> THEN <<>>
    ELSE <<[order_id |-> oid, event_id |-> its[1].event_id, seat |-> Null]>>
         \o TicketsFor_OnePerItem(Tail(its), oid)

(* the tickets ticketService.createTicket is asked for: quantity tickets per item *)
RECURSIVE TicketsFor(_, _)
TicketsFor(its, oid) ==
    IF its = <<>> THEN <<>>
    ELSE [i \in 1..its[1].quantity |->
             [order_id |-> oid, event_id |-> its[1].event_id, seat |-> Null]]
         \o TicketsFor(Tail(its), oid)

(* the ticket loop, the events counters and the organizer earnings: try {
   ... await approvalPaymentService.addEarnings(...) } catch (earnError) {
   console.error(...) }, which fail or not; none of them reads a table another
   handler writes *)
CompleteTicketsWith(p, earningsFail) ==
    /\ procs[p].pc = "cc_tickets"
    /\ tickets' = tickets \o TicketsFor(procs[p].snap, procs[p].oid)
    /\ procs' = [procs EXCEPT ![p].pc = "cc_checkout", ![p].failed = earningsFail]
    /\ out' = NoOut
    /\ UNCHANGED <<now, seatVars, payments, carts, items, checkouts, orders, verifications>>

(* the same where the earnings are recorded; their outcome is seen by no
   other handler *)
CompleteTickets(p) == CompleteTicketsWith(p, FALSE)

(* db('checkouts').where('id', checkoutId).update({status: 'completed', order_id}) *)
CompleteCheckoutRow(p, c) ==
    IF c = procs[p].cid
    THEN [checkouts[c] EXCEPT !.status = "completed", !.order_id = procs[p].oid]
    ELSE checkouts[c]

CompleteUpdate(p) ==
    /\ procs[p].pc = "cc_checkout"
    /\ checkouts' = [c \in 1..Len(checkouts) |-> CompleteCheckoutRow(p, c)]
    /\ procs' = [procs EXCEPT ![p].pc = "cc_cart"]
    /\ out' = NoOut
    /\ UNCHANGED <<now, seatVars, payments, carts, items, orders, tickets, verifications>>

(* db('shopping_carts').where('id', checkout.cart_id).update({status: 'completed'}) *)
CompleteCart(p) ==
    /\ procs[p].pc = "cc_cart"
    /\ carts' = [carts EXCEPT ![checkouts[procs[p].cid].cart_id].status = "completed"]
    /\ out' = [Respond("complete", 200, "Checkout completed successfully", procs[p].cid, <<>>,
                       procs[p].oid, Len(TicketsFor(procs[p].snap, procs[p].oid)))
                 EXCEPT !.n3 = procs[p].chk[1].total_amount, !.pid = procs[p].pid,
                        !.failed = procs[p].failed]
    /\ procs' = [procs EXCEPT ![p] = Idle]
    /\ UNCHANGED <<now, seatVars, payments, items, checkouts, orders, tickets, verifications>>

(* the checks CheckoutService.cancelCheckout makes on the checkout row it read *)
CancelCheckoutOk(cid, u) ==
    cid \in 1..Len(checkouts) /\ checkouts[cid].user_id = u

(* CheckoutService.cancelCheckout: the read of the checkout row *)
CancelCall(p, u, cid) ==
    /\ FreeSlot(p)
    /\ UNCHANGED <<now, seatVars, payments, shopVars>>
    /\ IF ~CancelCheckoutOk(cid, u)
       THEN /\ out' = Respond("cancel", 404, "Checkout not found", cid, <<>>, 0, 0)
            /\ UNCHANGED procs
       ELSE /\ out' = NoOut
            /\ procs' = [procs EXCEPT ![p] = [Idle EXCEPT !.pc = "cancel_update", !.user = u,
                                                           !.cid = cid]]

(* db('checkouts').where('id', checkoutId).update({status: 'cancelled'}) *)
CancelUpdate(p) ==
    /\ procs[p].pc = "cancel_update"
    /\ checkouts' = [checkouts EXCEPT ![procs[p].cid].status = "cancelled"]
    /\ out' = Respond("cancel", 200, "Checkout cancelled", procs[p].cid, <<>>, 0, 0)
    /\ procs' = [procs EXCEPT ![p] = Idle]
    /\ UNCHANGED <<now, seatVars, payments, carts, items, orders, tickets, verifications>>

(* GuestCheckoutService.cleanupExpiredCheckouts: one conditional update *)
CleanupExpires(c) ==
    /\ checkouts[c].is_guest
    /\ checkouts[c].status = "pending"
    /\ checkouts[c].expires_at < now

CleanupExpiredCheckouts ==
    /\ checkouts' = [c \in 1..Len(checkouts) |->
                        IF CleanupExpires(c) THEN [checkouts[c] EXCEPT !.status = "expired"]
                        ELSE checkouts[c]]
    /\ out' = Respond("cleanup", 200, "cleanedUp", 0, <<>>,
                      Cardinality({c \in 1..Len(checkouts) : CleanupExpires(c)}), 0)
    /\ UNCHANGED <<now, seatVars, payments, procs, carts, items, orders, tickets, verifications>>

(* the carts the checkout starts from: user u1 holds an active cart with one
   general-admission item of two tickets at 10, a guest holds one ticket at 15 *)
CartRow(u, guest, total) ==
    [user_id |-> u, is_guest |-> guest, status |-> "active",
     total_amount |-> total, discount_amount |-> 0, discount_code |-> Null]

ItemRow(id, c, q, price) ==
    [id |-> id, cart_id |-> c, event_id |-> "e1", quantity |-> q, unit_price |-> price,
     total_price |-> price * q, seat_numbers |-> <<>>]

CheckoutInit ==
    /\ now = 0
    /\ seats = [s \in Seats |-> SeatRow("available", 0, 0)]
    /\ reservations = <<>>
    /\ payments = <<>>
    /\ procs = [p \in Procs |-> Idle]
    /\ out = NoOut
    /\ carts = <<CartRow("u1", FALSE, 20), CartRow(Null, TRUE, 15)>>
    /\ items = <<ItemRow(1, 1, 2, 10), ItemRow(2, 2, 1, 15)>>
    /\ checkouts = <<>>
    /\ orders = <<>>
    /\ tickets = <<>>
    /\ verifications = <<>>

CheckoutNext ==
    \/ \E p \in Procs, b \in BOOLEAN : InitiateCall(p, "u1", b)
    \/ \E p \in Procs : InitiateInsert(p)
    \/ \E p \in Procs, c \in 1..2 : GuestInitiateCall(p, c, TRUE, TRUE)
    \/ \E p \in Procs : GuestInitiateInsert(p)
    \/ \E p \in Procs, cid \in 1..MaxCheckouts, pid \in 1..MaxPay :
          CompleteCall(p, "u1", cid, pid)
    \/ \E p \in Procs : CompletePayment(p)
    \/ \E p \in Procs : CompleteItems(p)
    \/ \E p \in Procs : CompleteOrder(p)
    \/ \E p \in Procs : CompleteTickets(p)
    \/ \E p \in Procs : CompleteUpdate(p)
    \/ \E p \in Procs : CompleteCart(p)
    \/ \E p \in Procs, cid \in 1..MaxCheckouts : CancelCall(p, "u1", cid)
    \/ \E p \in Procs : CancelUpdate(p)
    \/ CleanupExpiredCheckouts
    \/ InitiatePayment("u1", 20, "ecocash")
    \/ \E pid \in 1..MaxPay : PaymentCallback(pid, "success")
    \/ \E pid \in 1..MaxPay : ProcessRefund(pid)
    \/ \E pid \in 1..MaxPay : VerifyPayment(pid)
    \/ Tick

CheckoutSpec == CheckoutInit /\ [][CheckoutNext]_vars

(* ================================= carts ================================ *)
(* event.min_price of the events row *)
MinPrice(e) == 10

(* quantities and prices a request may name; price 0 stands for an absent price *)
Quantities == {1, 2}
Prices == {0, 5}
ItemIds == 1..MaxItems

(* uuidv4(): an id no row of the table carries *)
FreshItemId == CHOOSE i \in ItemIds : \A k \in 1..Len(items) : items[k].id # i

(* rows about to be inserted by handlers that have passed their checks *)
ItemsToCome == Len(items) + Cardinality(InFlight({"add_cart", "add_item", "gadd_item"}))
CartsToCome == Len(carts) + Cardinality(InFlight({"add_cart"}))

(* CartService.calculateCartTotal: sum('total_price') over the items of the cart *)
RECURSIVE SumTotalPrice(_)
SumTotalPrice(its) == IF its = <<>> THEN 0 ELSE its[1].total_price + SumTotalPrice(Tail(its))

CalculateCartTotal(c) == SumTotalPrice(CartItems(c))

(* newItem of addToCart: unitPrice = price || event.min_price || 0 *)
UnitPrice(price, e) == IF price # 0 THEN price ELSE MinPrice(e)

NewItem(e, q, price) ==
    [id |-> 0, cart_id |-> 0, event_id |-> e, quantity |-> q,
     unit_price |-> UnitPrice(price, e), total_price |-> UnitPrice(price, e) * q,
     seat_numbers |-> <<>>]

(* the cart row addToCart inserts: total_amount is not written *)
NewCart(u, guest) ==
    [user_id |-> u, is_guest |-> guest, status |-> "active",
     total_amount |-> 0, discount_amount |-> 0, discount_code |-> Null]

(* CartService.addToCart: the event read and the read of the active cart *)
AddCall(p, u, e, q, price) ==
    /\ FreeSlot(p)
    /\ ItemsToCome < MaxItems
    /\ ActiveCarts(u) = {} => CartsToCome < MaxCarts
    /\ UNCHANGED <<now, seatVars, payments, shopVars>>
    /\ IF e \notin Events
       THEN /\ out' = Respond("add", 500, "Event not found", 0, <<>>, 0, 0)
            /\ UNCHANGED procs
       ELSE /\ out' = NoOut
            /\ procs' = [procs EXCEPT ![p] =
                  [Idle EXCEPT !.pc = IF ActiveCarts(u) = {} THEN "add_cart" ELSE "add_item",
                               !.user = u, !.snap = <<NewItem(e, q, price)>>,
                               !.cid = IF ActiveCarts(u) = {} THEN 0 ELSE ActiveCart(u)]]

(* db('shopping_carts').insert(cart) *)
AddCartInsert(p) ==
    /\ procs[p].pc = "add_cart"
    /\ carts' = Append(carts, NewCart(procs[p].user, FALSE))
    /\ procs' = [procs EXCEPT ![p].pc = "add_item", ![p].cid = Len(carts) + 1]
    /\ out' = NoOut
    /\ UNCHANGED <<now, seatVars, payments, items, checkouts, orders, tickets, verifications>>

(* db('shopping_cart_items').insert(newItem) *)
InsertItem(p) ==
    Append(items, [procs[p].snap[1] EXCEPT !.id = FreshItemId, !.cart_id = procs[p].cid])

AddItemInsert(p) ==
    /\ procs[p].pc = "add_item"
    /\ items' = InsertItem(p)
    /\ procs' = [procs EXCEPT ![p].pc = "add_sum", ![p].item = FreshItemId]
    /\ out' = NoOut
    /\ UNCHANGED <<now, seatVars, payments, carts, checkouts, orders, tickets, verifications>>

(* const total = await this.calculateCartTotal(cart.id) *)
SumStep(p, from, to) ==
    /\ procs[p].pc = from
    /\ procs' = [procs EXCEPT ![p].pc = to, ![p].total = CalculateCartTotal(procs[p].cid)]
    /\ out' = NoOut
    /\ UNCHANGED <<now, seatVars, payments, shopVars>>

(* db('shopping_carts').where('id', cart.id).update({ total_amount: total }) *)
TotalStep(p, from, op, code) ==
    /\ procs[p].pc = from
    /\ carts' = [carts EXCEPT ![procs[p].cid].total_amount = procs[p].total]
    /\ out' = Respond(op, code, "ok", procs[p].cid, <<>>, procs[p].total, 0)
    /\ procs' = [procs EXCEPT ![p] = Idle]
    /\ UNCHANGED <<now, seatVars, payments, items, checkouts, orders, tickets, verifications>>

AddSum(p) == SumStep(p, "add_sum", "add_total")

AddTotal(p) == TotalStep(p, "add_total", "add", 201)

(* CartService.removeFromCart: the read of the active cart *)
RemoveCall(p, u, itemId) ==
    /\ FreeSlot(p)
    /\ UNCHANGED <<now, seatVars, payments, shopVars>>
    /\ IF ActiveCarts(u) = {}
       THEN /\ out' = Respond("remove", 500, "Cart not found", 0, <<>>, 0, 0)
            /\ UNCHANGED procs
       ELSE /\ out' = NoOut
            /\ procs' = [procs EXCEPT ![p] = [Idle EXCEPT !.pc = "remove_delete", !.user = u,
                                                           !.cid = ActiveCart(u),
                                                           !.item = itemId]]

(* db('shopping_cart_items').where('id', itemId).where('cart_id', cart.id).delete() *)
DeleteItem(itemId, c) ==
    SelectSeq(items, LAMBDA it : ~(it.id = itemId /\ it.cart_id = c))

RemoveDelete(p) ==
    /\ procs[p].pc = "remove_delete"
    /\ items' = DeleteItem(procs[p].item, procs[p].cid)
    /\ procs' = [procs EXCEPT ![p].pc = "remove_sum"]
    /\ out' = NoOut
    /\ UNCHANGED <<now, seatVars, payments, carts, checkouts, orders, tickets, verifications>>

RemoveSum(p) == SumStep(p, "remove_sum", "remove_total")

RemoveTotal(p) == TotalStep(p, "remove_total", "remove", 200)

(* CartService.updateQuantity: a quantity below 1 is a removeFromCart; otherwise
   the read of the active cart *)
UpdateCall(p, u, itemId, q) ==
    /\ FreeSlot(p)
    /\ UNCHANGED <<now, seatVars, payments, shopVars>>
    /\ IF ActiveCarts(u) = {}
       THEN /\ out' = Respond("update", 500, "Cart not found", 0, <<>>, 0, 0)
            /\ UNCHANGED procs
       ELSE /\ out' = NoOut
            /\ procs' = [procs EXCEPT ![p] =
                  [Idle EXCEPT !.pc = IF q < 1 THEN "remove_delete" ELSE "update_read",
                               !.user = u, !.cid = ActiveCart(u), !.item = itemId, !.qty = q]]

(* db('shopping_cart_items').where('id', itemId).where('cart_id', cart.id).first() *)
FindItem(itemId, c) == \E k \in 1..Len(items) : items[k].id = itemId /\ items[k].cart_id = c

UpdateRead(p) ==
    /\ procs[p].pc = "update_read"
    /\ UNCHANGED <<now, seatVars, payments, shopVars>>
    /\ IF ~FindItem(procs[p].item, procs[p].cid)
       THEN /\ out' = Respond("update", 500, "Cart item not found", procs[p].cid, <<>>, 0, 0)
            /\ procs' = [procs EXCEPT ![p] = Idle]
       ELSE /\ out' = NoOut
            /\ procs' = [procs EXCEPT ![p].pc = "update_item"]

(* db('shopping_cart_items').where('id', itemId).update({ quantity, subtotal }):
   quantity is written, total_price is not; subtotal is not a column addToCart
   writes, and where the table lacks it the statement fails *)
UpdateItemRow(it, itemId, q) == IF it.id = itemId THEN [it EXCEPT !.quantity = q] ELSE it

UpdateItem(p, hasSubtotalColumn) ==
    /\ procs[p].pc = "update_item"
    /\ UNCHANGED <<now, seatVars, payments, carts, checkouts, orders, tickets, verifications>>
    /\ IF hasSubtotalColumn
       THEN /\ items' = [k \in 1..Len(items) |->
                            UpdateItemRow(items[k], procs[p].item, procs[p].qty)]
            /\ procs' = [procs EXCEPT ![p].pc = "update_sum"]
            /\ out' = NoOut
       ELSE /\ out' = Respond("update", 500, "column subtotal does not exist",
                              procs[p].cid, <<>>, 0, 0)
            /\ procs' = [procs EXCEPT ![p] = Idle]
            /\ UNCHANGED items

UpdateSum(p) == SumStep(p, "update_sum", "update_total")

UpdateTotal(p) == TotalStep(p, "update_total", "update", 200)

(* CartService.clearCart: the read of the active cart *)
ClearCall(p, u) ==
    /\ FreeSlot(p)
    /\ UNCHANGED <<now, seatVars, payments, shopVars>>
    /\ IF ActiveCarts(u) = {}
       THEN /\ out' = Respond("clear", 200, "Cart cleared", 0, <<>>, 0, 0)
            /\ UNCHANGED procs
       ELSE /\ out' = NoOut
            /\ procs' = [procs EXCEPT ![p] = [Idle EXCEPT !.pc = "clear_delete", !.user = u,
                                                           !.cid = ActiveCart(u)]]

(* db('shopping_cart_items').where('cart_id', cart.id).delete() *)
ClearDelete(p) ==
    /\ procs[p].pc = "clear_delete"
    /\ items' = SelectSeq(items, LAMBDA it : it.cart_id # procs[p].cid)
    /\ procs' = [procs EXCEPT ![p].pc = "clear_total"]
    /\ out' = NoOut
    /\ UNCHANGED <<now, seatVars, payments, carts, checkouts, orders, tickets, verifications>>

(* db('shopping_carts').where('id', cart.id).update({ total_amount: 0 }) *)
ClearTotal(p) ==
    /\ procs[p].pc = "clear_total"
    /\ carts' = [carts EXCEPT ![procs[p].cid].total_amount = 0]
    /\ out' = Respond("clear", 200, "Cart cleared", procs[p].cid, <<>>, 0, 0)
    /\ procs' = [procs EXCEPT ![p] = Idle]
    /\ UNCHANGED <<now, seatVars, payments, items, checkouts, orders, tickets, verifications>>

(* the cart routes of one user under concurrent requests *)
CartNext ==
    \/ \E p \in Procs, e \in EventIds, q \in Quantities, price \in Prices :
          AddCall(p, "u1", e, q, price)
    \/ \E p \in Procs : AddCartInsert(p)
    \/ \E p \in Procs : AddItemInsert(p)
    \/ \E p \in Procs : AddSum(p)
    \/ \E p \in Procs : AddTotal(p)
    \/ \E p \in Procs, i \in ItemIds : RemoveCall(p, "u1", i)
    \/ \E p \in Procs : RemoveDelete(p)
    \/ \E p \in Procs : RemoveSum(p)
    \/ \E p \in Procs : RemoveTotal(p)
    \/ \E p \in Procs, i \in ItemIds, q \in {0, 2} : UpdateCall(p, "u1", i, q)
    \/ \E p \in Procs : UpdateRead(p)
    \/ \E p \in Procs, b \in BOOLEAN : UpdateItem(p, b)
    \/ \E p \in Procs : UpdateSum(p)
    \/ \E p \in Procs : UpdateTotal(p)
    \/ \E p \in Procs : ClearCall(p, "u1")
    \/ \E p \in Procs : ClearDelete(p)
    \/ \E p \in Procs : ClearTotal(p)

CartSpec == Init /\ [][CartNext]_vars

(* no cart operation is in flight *)
CartQuiet == \A p \in Procs : procs[p].pc = "idle"

RECURSIVE SumUnitTimesQuantity(_)
SumUnitTimesQuantity(its) ==
    IF its = <<>> THEN 0
    ELSE its[1].unit_price * its[1].quantity + SumUnitTimesQuantity(Tail(its))

(* C17: cart total is recomputed, not drifted.  Whenever no cart operation is
   in flight, every cart's total_amount equals the sum over its current items
   of unit_price * quantity. *)
C17_CartTotalRecomputed ==
    CartQuiet => \A c \in 1..Len(carts) :
                    carts[c].total_amount = SumUnitTimesQuantity(CartItems(c))

(* C18: one active cart per owner.  No user id owns more than one cart with
   status active. *)
C18_OneActiveCart ==
    \A u \in Users : Cardinality(ActiveCarts(u)) <= 1

(* ================================ guests ================================ *)
(* billing_address of a guest: the contact email, whether first and last name
   are given, whether the email and the phone match their patterns *)
Emails == {"g@x.zw", "G@x.zw"}

Billing(email, names, emailOk, phoneOk) ==
    [email |-> email, names |-> names, emailOk |-> emailOk, phoneOk |-> phoneOk]

Billings == {Billing(Null, FALSE, FALSE, FALSE), Billing("g@x.zw", TRUE, FALSE, TRUE),
             Billing("g@x.zw", TRUE, TRUE, FALSE), Billing("g@x.zw", TRUE, TRUE, TRUE)}

(* generateConfirmationCode: random bytes as upper-case hexadecimal *)
Codes == {"A1", "B2"}
CodeInputs == {"A1", "a1", "B2"}

(* String.prototype.toUpperCase / toLowerCase on the strings in use *)
ToUpperCase(s) == IF s = "a1" THEN "A1" ELSE IF s = "half" THEN "HALF" ELSE s
ToLowerCase(s) == IF s = "G@x.zw" THEN "g@x.zw" ELSE s

(* GuestCheckoutService.createGuestCart *)
CreateGuestCart ==
    /\ Len(carts) < MaxCarts
    /\ carts' = Append(carts, NewCart(Null, TRUE))
    /\ out' = Respond("guestCart", 201, "Guest cart created", Len(carts) + 1, <<>>, 0, 0)
    /\ UNCHANGED <<now, seatVars, payments, procs, items, checkouts, orders, tickets,
                   verifications>>

(* POST /cart/:cartId/add up to the checks on the cart and the event *)
GuestAddCall(p, c, e, q, price) ==
    /\ FreeSlot(p)
    /\ ItemsToCome < MaxItems
    /\ UNCHANGED <<now, seatVars, payments, shopVars>>
    /\ IF ~IsGuestCart(c)
       THEN /\ out' = Respond("guestAdd", 404, "Cart not found", c, <<>>, 0, 0)
            /\ UNCHANGED procs
       ELSE IF e \notin Events
       THEN /\ out' = Respond("guestAdd", 404, "Event not found", c, <<>>, 0, 0)
            /\ UNCHANGED procs
       ELSE /\ out' = NoOut
            /\ procs' = [procs EXCEPT ![p] = [Idle EXCEPT !.pc = "gadd_item", !.cid = c,
                                                           !.snap = <<NewItem(e, q, price)>>]]

GuestAddItemInsert(p) ==
    /\ procs[p].pc = "gadd_item"
    /\ items' = InsertItem(p)
    /\ procs' = [procs EXCEPT ![p].pc = "gadd_sum", ![p].item = FreshItemId]
    /\ out' = NoOut
    /\ UNCHANGED <<now, seatVars, payments, carts, checkouts, orders, tickets, verifications>>

GuestAddSum(p) == SumStep(p, "gadd_sum", "gadd_total")

GuestAddTotal(p) == TotalStep(p, "gadd_total", "guestAdd", 201)

(* the tax rate of completeGuestCheckout in percent: taxRate = 0.08 *)
TaxRatePercent == 8

(* taxAmount = subtotal * taxRate, in hundredths of the unit of subtotal *)
TaxAmount100_NoTax(subtotal) == 0

TaxAmount100(subtotal) == subtotal * TaxRatePercent

(* totalAmount = subtotal + taxAmount, in hundredths of the unit of subtotal *)
GuestTotal100(its) == 100 * SumTotalPrice(its) + TaxAmount100(SumTotalPrice(its))

(* GuestCheckoutService.completeGuestCheckout: getGuestCart, the checks on the
   cart and on the billing data, and the totals *)
GuestCompleteCall(p, c, billing) ==
    /\ FreeSlot(p)
    /\ Len(tickets) < MaxTickets
    /\ UNCHANGED <<now, seatVars, payments, shopVars>>
    /\ IF ~IsGuestCart(c)
       THEN /\ out' = Respond("guestComplete", 400, "Cart not found", c, <<>>, 0, 0)
            /\ UNCHANGED procs
       ELSE IF Len(CartItems(c)) = 0
       THEN /\ out' = Respond("guestComplete", 400, "Cart is empty", c, <<>>, 0, 0)
            /\ UNCHANGED procs
       ELSE IF billing.email = Null \/ ~billing.names
       THEN /\ out' = Respond("guestComplete", 400,
                              "Email, first name, and last name are required", c, <<>>, 0, 0)
            /\ UNCHANGED procs
       ELSE IF ~billing.emailOk
       THEN /\ out' = Respond("guestComplete", 400, "Invalid email address", c, <<>>, 0, 0)
            /\ UNCHANGED procs
       ELSE IF ~billing.phoneOk
       THEN /\ out' = Respond("guestComplete", 400,
                  "Invalid Zimbabwe phone number (must start with +263 or 0)", c, <<>>, 0, 0)
            /\ UNCHANGED procs
       ELSE /\ out' = NoOut
            /\ procs' = [procs EXCEPT ![p] = [Idle EXCEPT !.pc = "gc_tickets", !.cid = c,
                                                           !.user = billing.email,
                                                           !.total = GuestTotal100(CartItems(c))]]

(* the tickets ticketService.createTicket is asked for: (quantity || 1) per
   item, with no order *)
RECURSIVE GuestTicketsFor(_)
GuestTicketsFor(its) ==
    IF its = <<>> THEN <<>>
    ELSE [i \in 1..(IF its[1].quantity = 0 THEN 1 ELSE its[1].quantity) |->
             [order_id |-> 0, event_id |-> its[1].event_id, seat |-> Null]]
         \o GuestTicketsFor(Tail(its))

(* the second read of the cart items and the ticket loop *)
GuestCompleteTickets(p) ==
    /\ procs[p].pc = "gc_tickets"
    /\ tickets' = tickets \o GuestTicketsFor(CartItems(procs[p].cid))
    /\ procs' = [procs EXCEPT ![p].pc = "gc_cart",
                              ![p].qty = Len(GuestTicketsFor(CartItems(procs[p].cid)))]
    /\ out' = NoOut
    /\ UNCHANGED <<now, seatVars, payments, carts, items, checkouts, orders, verifications>>

(* db('shopping_carts').where('id', cartId).update({ status: 'completed' }),
   emailService.sendAdminNotification(...).catch(err => console.warn(...)),
   which is not awaited and fails or not, and the answer, with the
   confirmation code generated for this call *)
GuestCompleteCartWith(p, confirmationCode, emailFails) ==
    /\ procs[p].pc = "gc_cart"
    /\ carts' = [carts EXCEPT ![procs[p].cid].status = "completed"]
    /\ out' = [Respond("guestComplete", 200, "Checkout completed successfully",
                       procs[p].cid, <<>>, 0, procs[p].qty)
                 EXCEPT !.n3 = procs[p].total, !.email = procs[p].user,
                        !.confirmationCode = confirmationCode, !.failed = emailFails]
    /\ procs' = [procs EXCEPT ![p] = Idle]
    /\ UNCHANGED <<now, seatVars, payments, items, checkouts, orders, tickets, verifications>>

(* the same where the email is sent *)
GuestCompleteCart(p, confirmationCode) == GuestCompleteCartWith(p, confirmationCode, FALSE)

(* db('orders').where('is_guest', true).where('guest_email', email.toLowerCase())
     .where('confirmation_code', confirmationCode.toUpperCase()) *)
GuestOrders(email, confirmationCode) ==
    {o \in 1..Len(orders) : /\ orders[o].is_guest
                            /\ orders[o].guest_email = ToLowerCase(email)
                            /\ orders[o].confirmation_code = ToUpperCase(confirmationCode)}

GuestOrder(email, confirmationCode) ==
    CHOOSE o \in GuestOrders(email, confirmationCode) :
        \A q \in GuestOrders(email, confirmationCode) : o <= q

(* GuestCheckoutService.getGuestTickets behind GET /tickets *)
GetGuestTickets(email, confirmationCode) ==
    /\ \A p \in Procs : procs[p].pc = "idle"
    /\ UNCHANGED <<now, seatVars, payments, procs, shopVars>>
    /\ IF GuestOrders(email, confirmationCode) = {}
       THEN out' = [Respond("guestTickets", 404,
                            "Order not found. Please check your email and confirmation code.",
                            0, <<>>, 0, 0)
                      EXCEPT !.email = email, !.confirmationCode = confirmationCode]
       ELSE out' = [Respond("guestTickets", 200, "ok", 0, <<>>,
                            GuestOrder(email, confirmationCode),
                            Cardinality({i \in 1..Len(tickets) :
                               tickets[i].order_id = GuestOrder(email, confirmationCode)}))
                      EXCEPT !.email = email, !.confirmationCode = confirmationCode]

(* the guest routes, one request at a time *)
GuestNext ==
    \/ CreateGuestCart
    \/ \E c \in 1..MaxCarts, e \in EventIds, q \in Quantities, price \in Prices :
          GuestAddCall(1, c, e, q, price)
    \/ GuestAddItemInsert(1)
    \/ GuestAddSum(1)
    \/ GuestAddTotal(1)
    \/ \E c \in 1..MaxCarts, b \in Billings : GuestCompleteCall(1, c, b)
    \/ GuestCompleteTickets(1)
    \/ \E k \in Codes : GuestCompleteCart(1, k)
    \/ \E email \in Emails, k \in CodeInputs : GetGuestTickets(email, k)

GuestSpec == Init /\ [][GuestNext]_vars

(* the same with the guest checkout sessions of initiateGuestCheckout *)
GuestSessionNext ==
    \/ GuestNext
    \/ \E c \in 1..MaxCarts, b \in BOOLEAN : GuestInitiateCall(1, c, TRUE, b)
    \/ GuestInitiateInsert(1)

GuestSessionSpec == Init /\ [][GuestSessionNext]_vars

(* =========================== seat reservations ========================== *)
(* reservation r has been answered: no reserve handler is still writing it *)
ReserveFinished(r) == \A p \in Procs : ~(procs[p].pc = "reserve_seats" /\ procs[p].rid = r)

PendingFinished == {r \in 1..Len(reservations) :
                       reservations[r].status = "pending" /\ ReserveFinished(r)}

RECURSIVE SeatsHeld(_)
SeatsHeld(rs) ==
    IF rs = {} THEN 0
    ELSE LET r == CHOOSE x \in rs : TRUE
         IN Cardinality(Range(reservations[r].seat_ids)) + SeatsHeld(rs \ {r})

(* C1: no double-sell.  No seat is listed by two pending reservations whose
   reserve call has succeeded, and the seats held by the successful (pending)
   reservations of the event never number more than the event's seats. *)
C1_NoDoubleSell ==
    /\ \A r1, r2 \in PendingFinished :
          r1 # r2 => Range(reservations[r1].seat_ids) \cap Range(reservations[r2].seat_ids) = {}
    /\ SeatsHeld(PendingFinished) <= Cardinality(Seats)

(* a step that answers a reserve request with a rejection *)
ReserveRejected == out'.op = "reserve" /\ out'.code # 201

(* C4: atomic partial-claim rejection.  A reserve request that finds one of
   its seats not available is answered with the error carrying the available
   and the requested count, and writes nothing: no seat, no reservation and
   no handler state changes; a request that goes on to write found every
   requested seat available. *)
C4_PartialClaimRejected ==
    [][ /\ ReserveRejected => UNCHANGED <<seats, reservations, procs, payments>>
        /\ (/\ ReserveRejected
            /\ out'.code # 404
            /\ \E s \in Range(out'.ids) : seats[s].status # "available")
           => /\ out'.code = 400
              /\ out'.msg = "One or more seats are not available"
              /\ out'.n1 = Cardinality({s \in Range(out'.ids) : seats[s].status = "available"})
              /\ out'.n2 = Len(out'.ids)
        /\ \A p \in Procs :
              (procs[p].pc = "idle" /\ procs'[p].pc = "reserve_insert")
              => \A s \in Range(procs'[p].seatIds) : seats[s].status = "available"
      ]_vars

(* C4 witness: [A, B] was requested while A was held and B free; the answer
   names 1 available of 2 requested and B is still available. *)
C4_Witness ==
    /\ out.op = "reserve" /\ out.code = 400 /\ out.ids = <<"A", "B">>
    /\ out.n1 = 1 /\ out.n2 = 2
    /\ seats["A"].status = "reserved"
    /\ seats["B"].status = "available"

(* C5: seat lifecycle.  A seat's status only moves available -> reserved ->
   {available, sold}; a seat becomes sold only from reserved, held by the
   reservation being confirmed. *)
C5_SeatLifecycle ==
    [][ \A s \in Seats :
          \/ seats'[s].status = seats[s].status
          \/ seats[s].status = "available" /\ seats'[s].status = "reserved"
          \/ seats[s].status = "reserved" /\ seats'[s].status = "available"
          \/ /\ seats[s].status = "reserved" /\ seats'[s].status = "sold"
             /\ \E p \in Procs : procs[p].pc = "confirm_seats"
                                 /\ seats[s].reservation_id = procs[p].rid
      ]_vars

(* C6: bidirectional consistency.  Every seat of every pending reservation is
   reserved and points back to that reservation. *)
C6_Bidirectional ==
    \A r \in 1..Len(reservations) :
        reservations[r].status = "pending"
        => \A s \in Range(reservations[r].seat_ids) :
              seats[s].status = "reserved" /\ seats[s].reservation_id = r

(* C7: a confirm call on a reservation that is not pending is rejected: it
   never gets past its checks to write seats or the reservation. *)
C7_ConfirmNeedsPending ==
    [][ \A p \in Procs :
          (procs[p].pc = "idle" /\ procs'[p].pc = "confirm_seats")
          => reservations[procs'[p].rid].status = "pending"
      ]_vars

(* C19: release is only valid on a pending reservation.  A release called by
   the holder on a reservation that is released, confirmed or expired is
   rejected with a message naming that status, and changes no seat and no
   reservation. *)
C19_ReleaseOnlyPending ==
    [][ \A p \in Procs, u \in Users, rid \in 1..MaxRes :
          (/\ FindReservation(rid, u)
           /\ reservations[rid].status \in {"released", "confirmed", "expired"}
           /\ ReleaseCall(p, u, rid))
          => /\ out'.op = "release" /\ out'.code = 400
             /\ out'.msg = "Cannot release " \o reservations[rid].status \o " reservation"
             /\ UNCHANGED <<seats, reservations, procs>>
      ]_vars

(* a release of a confirmed reservation has been rejected *)
C19_Witness ==
    /\ out.op = "release" /\ out.code = 400
    /\ out.msg = "Cannot release confirmed reservation"
    /\ reservations[out.rid].status = "confirmed"

(* C20: confirm requires a completed payment.  A confirm called by the holder
   with a payment that is absent or not completed is rejected, no seat becomes
   sold and the reservation is unchanged. *)
C20_ConfirmNeedsPayment ==
    [][ \A p \in Procs, u \in Users, rid \in 1..MaxRes, pid \in 1..MaxPay :
          (/\ FindReservation(rid, u)
           /\ ~(FindPayment(pid, u) /\ payments[pid].status = "completed")
           /\ ConfirmCall(p, u, rid, pid))
          => /\ out'.op = "confirm"
             /\ \/ out'.code = 404 /\ out'.msg = "Payment not found"
                \/ out'.code = 400 /\ out'.msg = "Payment is not completed"
             /\ UNCHANGED <<seats, reservations, procs>>
      ]_vars

(* a confirm with a payment still pending has been rejected *)
C20_Witness ==
    /\ out.op = "confirm" /\ out.code = 400
    /\ out.msg = "Payment is not completed"
    /\ out.rid \in 1..Len(reservations)
    /\ payments[out.n1].status = "pending"

(* ============================ checkout claims =========================== *)
OrdersOf(c) == {o \in 1..Len(orders) : orders[o].checkout_id = c}

TicketsOf(c) == {i \in 1..Len(tickets) : tickets[i].order_id \in OrdersOf(c)}

RECURSIVE Quantity(_)
Quantity(its) == IF its = <<>> THEN 0 ELSE its[1].quantity + Quantity(Tail(its))

(* C2: at-most-once fulfillment.  At most one order exists for a checkout
   session, and no more tickets than its cart's items ask for. *)
C2_AtMostOnceFulfillment ==
    \A c \in 1..Len(checkouts) :
        /\ Cardinality(OrdersOf(c)) <= 1
        /\ Cardinality(TicketsOf(c)) <= Quantity(CartItems(checkouts[c].cart_id))

(* C3: idempotent completion.  A completeCheckout call made, with no other
   request in flight, on a session that is already completed and with a
   completed payment of its owner is answered with the order of the first
   call, not with an error. *)
C3_IdempotentCompletion ==
    [][ (/\ out'.op = "complete"
         /\ \A p \in Procs : procs[p].pc = "idle"
         /\ out'.rid \in 1..Len(checkouts)
         /\ checkouts[out'.rid].status = "completed"
         /\ FindCompletedPayment(out'.pid, checkouts[out'.rid].user_id))
        => (out'.code = 200 /\ out'.n1 = checkouts[out'.rid].order_id)
      ]_vars

(* C9: terminal states are absorbing.  Once completed, expired or cancelled,
   a session's status never changes. *)
C9_TerminalAbsorbing ==
    [][ \A c \in 1..Len(checkouts) :
          checkouts[c].status \in {"completed", "expired", "cancelled"}
          => checkouts'[c].status = checkouts[c].status
      ]_vars

(* C10: a session becomes completed only for a payment that is completed and
   that the fraud gate has scored legitimate. *)
C10_CompletedNeedsGate ==
    [][ \A c \in 1..Len(checkouts) :
          (checkouts[c].status # "completed" /\ checkouts'[c].status = "completed")
          => LET pid == orders[checkouts'[c].order_id].payment_id
             IN /\ payments[pid].status = "completed"
                /\ \E v \in 1..Len(verifications) :
                      verifications[v].payment_id = pid /\ verifications[v].is_legitimate
      ]_vars

(* C11: never two orders for one payment.  At most one order references any
   given payment id. *)
C11_OneOrderPerPayment ==
    \A pid \in 1..Len(payments) :
        Cardinality({o \in 1..Len(orders) : orders[o].payment_id = pid}) <= 1

(* C12: at most one checkout session per cart is ever completed. *)
C12_OneCompletedPerCart ==
    \A k \in 1..Len(carts) :
        Cardinality({c \in 1..Len(checkouts) :
                        checkouts[c].cart_id = k /\ checkouts[c].status = "completed"}) <= 1

(* ============================= guest claims ============================= *)
GuestCarts == {c \in 1..Len(carts) : carts[c].is_guest}

GuestTickets == {i \in 1..Len(tickets) : tickets[i].order_id = 0}

RECURSIVE QuantityOfCarts(_)
QuantityOfCarts(cs) ==
    IF cs = {} THEN 0
    ELSE LET c == CHOOSE x \in cs : TRUE
         IN Quantity(CartItems(c)) + QuantityOfCarts(cs \ {c})

(* C13: the guest path obeys the rules of the authenticated path.
   completeGuestCheckout marks the cart completed and answers with its tickets
   only when a pending guest checkout session of that cart exists and a
   payment is completed. *)
C13_GuestCompleteNeedsSession ==
    [][ (out'.op = "guestComplete" /\ out'.code = 200)
        => /\ \E ch \in 1..Len(checkouts) : /\ checkouts[ch].is_guest
                                            /\ checkouts[ch].cart_id = out'.rid
                                            /\ checkouts[ch].status = "pending"
           /\ \E pid \in 1..Len(payments) : payments[pid].status = "completed"
      ]_vars

(* C14: guest fulfillment happens exactly once.  However often
   completeGuestCheckout is called, the tickets issued to guests never
   outnumber the item quantities of the guest carts. *)
C14_GuestTicketsOnce ==
    Cardinality(GuestTickets) <= QuantityOfCarts(GuestCarts)

(* C15: guest round trip.  getGuestTickets called with the email and the
   confirmation code that a successful completeGuestCheckout has just returned
   succeeds and returns as many tickets as the cart's items ask for. *)
C15_GuestRoundTrip ==
    [][ (/\ out.op = "guestComplete" /\ out.code = 200
         /\ out'.op = "guestTickets"
         /\ out'.email = out.email /\ out'.confirmationCode = out.confirmationCode)
        => (out'.code = 200 /\ out'.n2 = Quantity(CartItems(out.rid)))
      ]_vars

(* C16: guest tax.  The totalAmount completeGuestCheckout returns is the sum
   of the cart items' total_price times 1.08: with totalAmount in hundredths,
   it equals 108 times the sum. *)
C16_GuestTax ==
    (out.op = "guestComplete" /\ out.code = 200)
    => out.n3 = 108 * SumTotalPrice(CartItems(out.rid))

(* a guest checkout of a cart of two items has been answered *)
C16_Witness ==
    /\ out.op = "guestComplete" /\ out.code = 200
    /\ Len(CartItems(out.rid)) = 2
    /\ out.n3 = 108 * 15

(* ------------------------- reservations and time ------------------------ *)
(* the continuation of a handler that has been called: the event loop runs
   every awaited storage call to completion *)
HandlerStep(p) ==
    \/ ReserveInsert(p) \/ ReserveSeats(p)
    \/ ReleaseSeats(p) \/ ReleaseReservation(p)
    \/ ConfirmSeats(p) \/ ConfirmReservation(p)

(* the seat routes served one request at a time *)
SeqNext ==
    \/ \E u \in Users, e \in EventIds, ids \in SeatRequests : ReserveCall(1, u, e, ids)
    \/ \E u \in Users, rid \in 1..MaxRes : ReleaseCall(1, u, rid)
    \/ \E u \in Users, rid \in 1..MaxRes, pid \in 1..MaxPay : ConfirmCall(1, u, rid, pid)
    \/ HandlerStep(1)
    \/ \E u \in Users : InitiatePayment(u, 100, "ecocash")
    \/ \E pid \in 1..MaxPay : PaymentCallback(pid, "success")

SeqSpec == Init /\ [][SeqNext]_vars

(* the seat routes of one holder, one request at a time, with payments that
   complete or fail *)
HolderNext ==
    \/ \E ids \in SeatRequests : ReserveCall(1, "u1", "e1", ids)
    \/ \E rid \in 1..MaxRes : ReleaseCall(1, "u1", rid)
    \/ \E rid \in 1..MaxRes, pid \in 1..MaxPay : ConfirmCall(1, "u1", rid, pid)
    \/ HandlerStep(1)
    \/ InitiatePayment("u1", 100, "ecocash")
    \/ \E pid \in 1..MaxPay, st \in {"success", "failed"} : PaymentCallback(pid, st)

HolderSpec == Init /\ [][HolderNext]_vars

(* the same with the clock running *)
TTLNext == SeqNext \/ Tick

(* time passes and every started handler runs on; requests need not arrive *)
TTLSpec ==
    /\ Init
    /\ [][TTLNext]_vars
    /\ WF_vars(Tick)
    /\ WF_vars(HandlerStep(1))

(* reservation r is pending and its expires_at has passed *)
PendingPastExpiry(r) ==
    /\ r <= Len(reservations)
    /\ reservations[r].status = "pending"
    /\ reservations[r].expires_at < now

(* C8: TTL release.  Every reservation still pending after its expires_at
   eventually stops being pending: it is expired with all its seats available
   again (unless its holder released or confirmed it in the meantime). *)
C8_TTLRelease ==
    \A r \in 1..MaxRes :
        PendingPastExpiry(r)
        ~> (/\ r <= Len(reservations)
            /\ \/ reservations[r].status \in {"released", "confirmed"}
               \/ /\ reservations[r].status = "expired"
                  /\ \A s \in Range(reservations[r].seat_ids) : seats[s].status = "available")

(* =============================== discounts ============================== *)
(* table discount_codes: the codes that are active and not expired, their
   discount_percentage and their max_uses_per_user (0: no limit) *)
DiscountCodes == {"SAVE10", "HALF"}

DiscountInputs == {"half", "NOPE"}

DiscountPercentage(code) == IF code = "SAVE10" THEN 10 ELSE 50

MaxUsesPerUser(code) == IF code = "HALF" THEN 1 ELSE 0

(* Math.floor(cart.total_amount * (discount.discount_percentage / 100)) *)
DiscountAmount(total, code) == (total * DiscountPercentage(code)) \div 100

(* CartService.applyDiscount: the read of the active cart and of the discount *)
ApplyDiscountCall(p, u, discountCode) ==
    /\ FreeSlot(p)
    /\ UNCHANGED <<now, seatVars, payments, shopVars>>
    /\ IF ActiveCarts(u) = {}
       THEN /\ out' = Respond("discount", 400, "Cart not found", 0, <<>>, 0, 0)
            /\ UNCHANGED procs
       ELSE IF ToUpperCase(discountCode) \notin DiscountCodes
       THEN /\ out' = Respond("discount", 400, "Invalid or expired discount code",
                              0, <<>>, 0, 0)
            /\ UNCHANGED procs
       ELSE /\ out' = NoOut
            /\ procs' = [procs EXCEPT ![p] =
                  [Idle EXCEPT !.pc = "discount_usage", !.user = u, !.cid = ActiveCart(u),
                               !.snap = <<carts[ActiveCart(u)]>>,
                               !.code = ToUpperCase(discountCode)]]

(* db('shopping_carts').where('user_id', userId).where('discount_code', code).count() *)
UsageCount(u, code) ==
    Cardinality({c \in 1..Len(carts) : carts[c].user_id = u /\ carts[c].discount_code = code})

ApplyDiscountUsage(p) ==
    /\ procs[p].pc = "discount_usage"
    /\ UNCHANGED <<now, seatVars, payments, shopVars>>
    /\ IF /\ MaxUsesPerUser(procs[p].code) # 0
          /\ UsageCount(procs[p].user, procs[p].code) >= MaxUsesPerUser(procs[p].code)
       THEN /\ out' = Respond("discount", 400, "You have already used this discount code",
                              procs[p].cid, <<>>, 0, 0)
            /\ procs' = [procs EXCEPT ![p] = Idle]
       ELSE /\ out' = NoOut
            /\ procs' = [procs EXCEPT ![p].pc = "discount_update"]

(* db('shopping_carts').where('id', cart.id).update({discount_code,
   discount_percentage, discount_amount}), from the total of the cart row read *)
ApplyDiscountUpdate(p) ==
    /\ procs[p].pc = "discount_update"
    /\ carts' = [carts EXCEPT
                   ![procs[p].cid].discount_code = procs[p].code,
                   ![procs[p].cid].discount_amount =
                       DiscountAmount(procs[p].snap[1].total_amount, procs[p].code)]
    /\ out' = Respond("discount", 200, "Discount applied", procs[p].cid, <<>>,
                      DiscountAmount(procs[p].snap[1].total_amount, procs[p].code),
                      procs[p].snap[1].total_amount
                        - DiscountAmount(procs[p].snap[1].total_amount, procs[p].code))
    /\ procs' = [procs EXCEPT ![p] = Idle]
    /\ UNCHANGED <<now, seatVars, payments, items, checkouts, orders, tickets, verifications>>

(* CartService.removeDiscount: the read of the active cart *)
RemoveDiscountCall(p, u) ==
    /\ FreeSlot(p)
    /\ UNCHANGED <<now, seatVars, payments, shopVars>>
    /\ IF ActiveCarts(u) = {}
       THEN /\ out' = Respond("removeDiscount", 500, "Failed to remove discount",
                              0, <<>>, 0, 0)
            /\ UNCHANGED procs
       ELSE /\ out' = NoOut
            /\ procs' = [procs EXCEPT ![p] = [Idle EXCEPT !.pc = "discount_remove",
                                                           !.user = u, !.cid = ActiveCart(u)]]

(* db('shopping_carts').where('id', cart.id).update({discount_code: null,
   discount_percentage: 0, discount_amount: 0}) *)
RemoveDiscountUpdate(p) ==
    /\ procs[p].pc = "discount_remove"
    /\ carts' = [carts EXCEPT ![procs[p].cid].discount_code = Null,
                              ![procs[p].cid].discount_amount = 0]
    /\ out' = Respond("removeDiscount", 200, "Discount removed", procs[p].cid, <<>>, 0, 0)
    /\ procs' = [procs EXCEPT ![p] = Idle]
    /\ UNCHANGED <<now, seatVars, payments, items, checkouts, orders, tickets, verifications>>

(* ---------------- one customer, one request at a time ------------------ *)
(* the customer holds an active cart with one item of two tickets at 10 *)
ShopInit(pays) ==
    /\ now = 0
    /\ seats = [s \in Seats |-> SeatRow("available", 0, 0)]
    /\ reservations = <<>>
    /\ payments = pays
    /\ procs = [p \in Procs |-> Idle]
    /\ out = NoOut
    /\ carts = <<CartRow("u1", FALSE, 20)>>
    /\ items = <<ItemRow(1, 1, 2, 10)>>
    /\ checkouts = <<>>
    /\ orders = <<>>
    /\ tickets = <<>>
    /\ verifications = <<>>

(* the payment row after initiatePayment and a successful callback *)
PaidPayment(u, amount, m) ==
    [user_id |-> u, amount |-> amount, method |-> m,
     status |-> PaymentStatusOf("success"), txn_status |-> PaymentStatusOf("success")]

(* no payment yet / the customer's payment of 20 has completed *)
PayInit == ShopInit(<<>>)

OrderInit == ShopInit(<<PaidPayment("u1", 20, "ecocash")>>)

(* the steps of the cart handlers on a cart that exists *)
CartStep(p) ==
    \/ AddItemInsert(p) \/ AddSum(p) \/ AddTotal(p)
    \/ RemoveDelete(p) \/ RemoveSum(p) \/ RemoveTotal(p)
    \/ UpdateRead(p) \/ UpdateItem(p, TRUE) \/ UpdateSum(p) \/ UpdateTotal(p)
    \/ ClearDelete(p) \/ ClearTotal(p)
    \/ ApplyDiscountUsage(p) \/ ApplyDiscountUpdate(p) \/ RemoveDiscountUpdate(p)

(* the steps of completeCheckout after the read of the checkout row *)
CompleteStep(p) ==
    \/ CompletePayment(p) \/ CompleteItems(p) \/ CompleteOrder(p)
    \/ CompleteTickets(p) \/ CompleteUpdate(p) \/ CompleteCart(p)

(* the cart requests of the customer *)
CartCall(p, u) ==
    \/ AddCall(p, u, "e1", 1, 5)
    \/ RemoveCall(p, u, 1)
    \/ UpdateCall(p, u, 1, 2)
    \/ ClearCall(p, u)
    \/ \E k \in DiscountInputs : ApplyDiscountCall(p, u, k)
    \/ RemoveDiscountCall(p, u)

(* the customer, whose payment has completed, changes the cart before and
   after opening one checkout session, until the order is placed *)
OrderNext ==
    \/ orders = <<>> /\ CartCall(1, "u1")
    \/ CartStep(1)
    \/ checkouts = <<>> /\ InitiateCall(1, "u1", TRUE)
    \/ InitiateInsert(1)
    \/ \E cid \in 1..MaxCheckouts, pid \in 1..MaxPay : CompleteCall(1, "u1", cid, pid)
    \/ CompleteStep(1)

OrderSpec == OrderInit /\ [][OrderNext]_vars

(* the customer opens, pays, completes and cancels checkout sessions *)
PayNext ==
    \/ \E b \in BOOLEAN : InitiateCall(1, "u1", b)
    \/ \E cid \in 1..MaxCheckouts, pid \in 1..MaxPay : CompleteCall(1, "u1", cid, pid)
    \/ \E cid \in 1..MaxCheckouts : CancelCall(1, "u1", cid)
    \/ InitiateInsert(1)
    \/ CompleteStep(1)
    \/ CancelUpdate(1)
    \/ \E u \in Users : InitiatePayment(u, 20, "ecocash")
    \/ \E pid \in 1..MaxPay, st \in {"success", "failed"} : PaymentCallback(pid, st)

PaySpec == PayInit /\ [][PayNext]_vars

(* ================== claims on the checkout of one customer ============== *)
(* C21: completeCheckout on a checkout id that names no pending session of the
   caller answers "Checkout not found or already processed", and on a pending
   session with a payment that is absent or not completed it answers "Payment
   not found or not completed"; neither creates an order or a ticket, and the
   sessions and the carts stay as they were. *)
C21_CompleteErrors ==
    [][ /\ \A cid \in 1..MaxCheckouts, pid \in 1..MaxPay :
             (/\ ~(/\ cid <= Len(checkouts)
                   /\ checkouts[cid].user_id = "u1"
                   /\ checkouts[cid].status = "pending")
              /\ CompleteCall(1, "u1", cid, pid))
             => /\ out'.op = "complete" /\ out'.code = 400
                /\ out'.msg = "Checkout not found or already processed"
                /\ UNCHANGED <<orders, tickets, checkouts, carts, procs>>
        /\ (/\ procs[1].pc = "cc_payment"
            /\ ~(/\ procs[1].pid <= Len(payments)
                 /\ payments[procs[1].pid].user_id = procs[1].user
                 /\ payments[procs[1].pid].status = "completed")
            /\ CompletePayment(1))
           => /\ out'.op = "complete" /\ out'.code = 400
              /\ out'.msg = "Payment not found or not completed"
              /\ procs'[1].pc = "idle"
              /\ UNCHANGED <<orders, tickets, checkouts, carts>>
      ]_vars

(* a completion refused for its payment, which exists and is not completed,
   while the session it names is pending *)
C21_Witness ==
    /\ out.op = "complete" /\ out.code = 400
    /\ out.msg = "Payment not found or not completed"
    /\ out.pid <= Len(payments)
    /\ payments[out.pid].status # "completed"
    /\ checkouts[out.rid].status = "pending"
    /\ orders = <<>> /\ tickets = <<>>

(* subtotal, discount_amount and total_amount of a row *)
Amounts(row) == <<row.subtotal, row.discount_amount, row.total_amount>>

(* C23: copy-on-initiate.  No step, whichever cart handler takes it, changes
   the subtotal, discount_amount or total_amount of a checkout session once it
   is written, and every order carries exactly the three amounts of the
   session it completes. *)
C23_CopyOnInitiate ==
    [][ /\ \A c \in 1..Len(checkouts) : Amounts(checkouts'[c]) = Amounts(checkouts[c])
        /\ \A o \in 1..Len(orders') :
              Amounts(orders'[o]) = Amounts(checkouts[orders'[o].checkout_id])
      ]_vars

(* an order of a session whose cart was changed after the session was opened:
   the order's amounts are no longer those of the cart *)
C23_Witness ==
    \E o \in 1..Len(orders) :
        LET cart == carts[checkouts[orders[o].checkout_id].cart_id]
        IN  /\ orders[o].subtotal # cart.total_amount
            /\ orders[o].discount_amount # cart.discount_amount
            /\ orders[o].total_amount = orders[o].subtotal - orders[o].discount_amount

(* ---------- addToCart, clearCart and initiateCheckout, concurrently ------- *)
RaceNext ==
    \/ \E p \in Procs : AddCall(p, "u1", "e1", 1, 5)
    \/ \E p \in Procs : AddItemInsert(p)
    \/ \E p \in Procs : AddSum(p)
    \/ \E p \in Procs : AddTotal(p)
    \/ \E p \in Procs : ClearCall(p, "u1")
    \/ \E p \in Procs : ClearDelete(p)
    \/ \E p \in Procs : ClearTotal(p)
    \/ \E p \in Procs, b \in BOOLEAN : InitiateCall(p, "u1", b)
    \/ \E p \in Procs : InitiateInsert(p)

RaceSpec == PayInit /\ [][RaceNext]_vars

(* no handler is running *)
Quiet == \A p \in Procs : procs[p].pc = "idle"

(* C22: initiateCheckout requires a cart with at least one item and billing
   info.  Called while no other request is running, for a customer whose
   active cart is missing or holds no item, or without billing info, it
   answers "Cart is empty" or "Billing information is required" and no
   checkout session is created. *)
C22_InitiateNeedsItems ==
    [][ \A b \in BOOLEAN :
          (/\ Quiet
           /\ \/ ActiveCarts("u1") = {}
              \/ Len(CartItems(ActiveCart("u1"))) = 0
              \/ ~b
           /\ InitiateCall(1, "u1", b))
          => /\ out'.op = "initiate" /\ out'.code = 400
             /\ out'.msg \in {"Cart is empty", "Billing information is required"}
             /\ UNCHANGED <<checkouts, procs>>
      ]_vars

(* C24: cancelCheckout is only valid while the session is pending.  A cancel
   answered for a session that is completed, expired or cancelled is an error
   and leaves the status of the session as it was. *)
C24_CancelOnlyPending ==
    [][ \A c \in 1..Len(checkouts) :
          (/\ checkouts[c].status \in {"completed", "expired", "cancelled"}
           /\ out'.op = "cancel" /\ out'.rid = c)
          => /\ out'.code # 200
             /\ checkouts'[c].status = checkouts[c].status
      ]_vars

(* ============================ the fraud gate ============================ *)
(* amounts around the bands of GATEWAY_CONFIG and around the large-amount mark *)
FraudAmounts == {0, 1, 5000, 5001, 10000, 10001, 50000, 50001}

(* performFraudChecks and verifyPayment as functions of the payment row: the
   row is any row of table payments, whichever way it was written *)
FraudInit ==
    /\ now = 0
    /\ seats = [s \in Seats |-> SeatRow("available", 0, 0)]
    /\ reservations = <<>>
    /\ \E a \in FraudAmounts, mth \in Methods, st \in {"pending", "completed"} :
          payments = <<[user_id |-> "u1", amount |-> a, method |-> mth,
                        status |-> st, txn_status |-> st]>>
    /\ procs = [p \in Procs |-> Idle]
    /\ out = NoOut
    /\ carts = <<>>
    /\ items = <<>>
    /\ checkouts = <<>>
    /\ orders = <<>>
    /\ tickets = <<>>
    /\ verifications = <<>>

FraudNext == \E pid \in 1..(MaxPay + 1) : VerifyPayment(pid)

FraudSpec == FraudInit /\ [][FraudNext]_vars

(* the amount of payment row pay lies outside the band of its method *)
OutOfBand(pay) ==
    \/ pay.method = "ecocash" /\ (pay.amount < 1 \/ pay.amount > 5000)
    \/ pay.method = "innbucks" /\ (pay.amount < 1 \/ pay.amount > 10000)
    \/ pay.method = "telecash" /\ (pay.amount < 1 \/ pay.amount > 5000)
    \/ pay.method = "zimswitch" /\ (pay.amount < 1 \/ pay.amount > 50000)

(* C25: fraud score.  Every logged score of a payment whose amount lies outside
   the band of its method is at least 20, the logged verdict is legitimate
   exactly when the score is below 50, and the answer of verifyPayment is
   verified for a legitimate verdict and review_required otherwise. *)
C25_FraudScore ==
    /\ \A v \in 1..Len(verifications) :
          /\ OutOfBand(payments[verifications[v].payment_id])
                => verifications[v].fraud_score >= 20
          /\ verifications[v].is_legitimate <=> verifications[v].fraud_score < 50
    /\ (out.op = "verify" /\ out.code = 200)
          => /\ OutOfBand(payments[out.pid]) => out.n1 >= 20
             /\ out.msg = (IF out.n1 < 50 THEN "verified" ELSE "review_required")

(* a large amount outside its band was scored: 20 for the band and 10 more *)
C25_Witness ==
    /\ out.op = "verify" /\ out.code = 200 /\ out.msg = "verified"
    /\ OutOfBand(payments[out.pid])
    /\ payments[out.pid].amount = 50001
    /\ out.n1 = 30
    /\ Len(verifications) = 1 /\ verifications[1].fraud_score = 30

(* C26: every verifyPayment call on an existing payment adds exactly one row
   to payment_verifications, which holds the payment, the score and the
   verdict the call answers and the four checks performed, the frequency
   check among them. *)
C26_VerificationLogged ==
    [][ (out'.op = "verify" /\ out'.code = 200)
        => /\ Len(verifications') = Len(verifications) + 1
           /\ SubSeq(verifications', 1, Len(verifications)) = verifications
           /\ LET row == verifications'[Len(verifications')]
              IN  /\ row.payment_id = out'.pid
                  /\ row.fraud_score = out'.n1
                  /\ row.is_legitimate = (out'.msg = "verified")
                  /\ DOMAIN row.checks_performed =
                        {"amountRange", "frequencyCheck", "geoCheck", "deviceCheck"}
                  /\ row.checks_performed.amountRange = ~OutOfBand(payments[out'.pid])
                  /\ row.checks_performed.frequencyCheck
      ]_vars

(* a verification of an out-of-band payment was logged with its checks *)
C26_Witness ==
    /\ out.op = "verify" /\ out.code = 200
    /\ Len(verifications) = 1
    /\ verifications[1].payment_id = out.pid
    /\ ~verifications[1].checks_performed.amountRange
    /\ verifications[1].checks_performed.frequencyCheck

(* the gate next to the tables it must leave alone: one customer reserves
   seats, opens checkout sessions and pays, and the payments are verified *)
GateNext ==
    \/ \E ids \in SeatRequests : ReserveCall(1, "u1", "e1", ids)
    \/ ReserveInsert(1)
    \/ ReserveSeats(1)
    \/ InitiateCall(1, "u1", TRUE)
    \/ InitiateInsert(1)
    \/ InitiatePayment("u1", 20, "ecocash")
    \/ \E pid \in 1..MaxPay, st \in {"success", "failed"} : PaymentCallback(pid, st)
    \/ \E pid \in 1..MaxPay : VerifyPayment(pid)

GateSpec == PayInit /\ [][GateNext]_vars

(* C27: the gate only reads and scores.  A step of verifyPayment, whatever
   it answers, changes no payment, no reservation, no seat and no checkout
   session. *)
C27_GateOnlyReads ==
    [][ out'.op = "verify" => UNCHANGED <<payments, reservations, seats, checkouts>> ]_vars

(* a completed payment was verified while a pending reservation holds a
   reserved seat and a checkout session is pending *)
C27_Witness ==
    /\ out.op = "verify" /\ out.code = 200
    /\ payments[out.pid].status = "completed"
    /\ Len(verifications) >= 1
    /\ \E r \in 1..Len(reservations) : reservations[r].status = "pending"
    /\ \E x \in Seats : seats[x].status = "reserved"
    /\ \E c \in 1..Len(checkouts) : checkouts[c].status = "pending"

(* ============================== the webhook ============================= *)
(* the payment service: payments are initiated, reported by the provider
   and refunded.  The status values are those POST /zim/webhook lets
   through, and one it does not *)
ProviderStatuses ==
    {"success", "pending", "failed", "completed", "processing", "SUCCESS", "PENDING",
     "cancelled"}

WebhookNext ==
    \/ \E u \in Users, amount \in {20, 6000}, mth \in Methods \cup {"stripe"} :
          InitiatePayment(u, amount, mth)
    \/ \E pid \in 1..MaxPay, st \in ProviderStatuses : PaymentCallback(pid, st)
    \/ \E pid \in 1..MaxPay : ProcessRefund(pid)

WebhookSpec == Init /\ [][WebhookNext]_vars

(* C28: webhook status mapping.  handlePaymentCallback on the transaction of
   a payment sets the payment and its transaction to completed for provider
   status success, completed or SUCCESS, to processing for pending or
   processing, and to failed for every other status. *)
C28_WebhookMapping ==
    [][ \A pid \in 1..MaxPay, st \in ProviderStatuses :
          (pid <= Len(payments) /\ PaymentCallback(pid, st))
          => LET mapped == IF st \in {"success", "completed", "SUCCESS"} THEN "completed"
                           ELSE IF st \in {"pending", "processing"} THEN "processing"
                           ELSE "failed"
             IN  /\ payments'[pid].status = mapped
                 /\ payments'[pid].txn_status = mapped
                 /\ out'.op = "webhook" /\ out'.msg = mapped
      ]_vars

(* a callback has set a payment and its transaction to failed *)
C28_Witness ==
    /\ out.op = "webhook" /\ out.msg = "failed"
    /\ payments[out.n1].status = "failed"
    /\ payments[out.n1].txn_status = "failed"

(* ============================ session expiry ============================ *)
(* a customer and a guest open checkout sessions; the clock runs and the
   sweep of expired sessions is run again and again *)
ExpiryNext ==
    \/ \E b \in BOOLEAN : InitiateCall(1, "u1", b)
    \/ InitiateInsert(1)
    \/ \E c \in 1..MaxCarts, b \in BOOLEAN : GuestInitiateCall(1, c, TRUE, b)
    \/ GuestInitiateInsert(1)
    \/ CleanupExpiredCheckouts
    \/ Tick

(* time passes, the sweep keeps running and every started handler runs on *)
ExpirySpec ==
    /\ CheckoutInit
    /\ [][ExpiryNext]_vars
    /\ WF_vars(Tick)
    /\ WF_vars(CleanupExpiredCheckouts)
    /\ WF_vars(InitiateInsert(1))
    /\ WF_vars(GuestInitiateInsert(1))

(* C29: session expiry.  Every checkout session, guest or authenticated, that
   is pending after its expires_at is eventually expired. *)
C29_SessionExpiry ==
    \A c \in 1..MaxCheckouts :
        (/\ c <= Len(checkouts)
         /\ checkouts[c].status = "pending"
         /\ checkouts[c].expires_at < now)
        ~> (c <= Len(checkouts) /\ checkouts[c].status = "expired")

(* ======================= checkout of reserved seats ===================== *)
(* the customer has reserved seat A, put it into the cart (addToCart with
   seat_ids [A], one ticket at 10) and paid *)
SeatOrderInit ==
    /\ now = 0
    /\ seats = [s \in Seats |-> IF s = "A" THEN SeatRow("reserved", 1, 0)
                                ELSE SeatRow("available", 0, 0)]
    /\ reservations = <<[user_id |-> "u1", seat_ids |-> <<"A">>, status |-> "pending",
                         expires_at |-> ReservationTTL, payment_id |-> 0]>>
    /\ payments = <<PaidPayment("u1", 10, "ecocash")>>
    /\ procs = [p \in Procs |-> Idle]
    /\ out = NoOut
    /\ carts = <<CartRow("u1", FALSE, 10)>>
    /\ items = <<[ItemRow(1, 1, 1, 10) EXCEPT !.seat_numbers = <<"A">>]>>
    /\ checkouts = <<>>
    /\ orders = <<>>
    /\ tickets = <<>>
    /\ verifications = <<>>

(* the checkout routes and the seat routes of the customer, one request at a time *)
SeatOrderNext ==
    \/ InitiateCall(1, "u1", TRUE)
    \/ InitiateInsert(1)
    \/ \E cid \in 1..MaxCheckouts, pid \in 1..MaxPay : CompleteCall(1, "u1", cid, pid)
    \/ CompleteStep(1)
    \/ \E ids \in SeatRequests : ReserveCall(1, "u1", "e1", ids)
    \/ \E rid \in 1..MaxRes : ReleaseCall(1, "u1", rid)
    \/ \E rid \in 1..MaxRes, pid \in 1..MaxPay : ConfirmCall(1, "u1", rid, pid)
    \/ HandlerStep(1)

SeatOrderSpec == SeatOrderInit /\ [][SeatOrderNext]_vars

(* the seats assigned to the items of cart c *)
SeatsOfCart(c) ==
    {x \in Seats : \E k \in 1..Len(items) :
                      items[k].cart_id = c /\ x \in Range(items[k].seat_numbers)}

(* C30: fulfillment finalizes the ledger.  When completeCheckout has answered
   with success for a session, every seat assigned to an item of the
   session's cart is sold. *)
C30_SeatsSoldAtCompletion ==
    (out.op = "complete" /\ out.code = 200)
      => \A x \in SeatsOfCart(checkouts[out.rid].cart_id) : seats[x].status = "sold"

(* ------------------------------------------------------------------ *)
(* Ticket expansion                                                    *)
(* ------------------------------------------------------------------ *)

(* the tickets bound to order oid, and those of them issued for event e *)
TicketsOfOrder(oid) == {t \in 1..Len(tickets) : tickets[t].order_id = oid}

TicketsOfOrderFor(oid, e) == {t \in TicketsOfOrder(oid) : tickets[t].event_id = e}

(* the items of a list that are for event e *)
ItemsFor(its, e) == SelectSeq(its, LAMBDA it : it.event_id = e)

(* C31: when completeCheckout has answered success, the tickets bound to the
   new order number, for every event, the sum of the quantities of the cart's
   items for that event, and ticketsCreated is the sum of the quantities of
   all the items of the cart. *)
C31_TicketExpansion ==
    (out.op = "complete" /\ out.code = 200) =>
        LET its == CartItems(checkouts[out.rid].cart_id)
        IN  /\ out.n2 = Quantity(its)
            /\ Cardinality(TicketsOfOrder(out.n1)) = Quantity(its)
            /\ \A e \in Events :
                   Cardinality(TicketsOfOrderFor(out.n1, e)) = Quantity(ItemsFor(its, e))

(* a completion of a cart of two items, of quantities 2 and 1 *)
C31_Witness ==
    /\ out.op = "complete" /\ out.code = 200
    /\ Len(CartItems(checkouts[out.rid].cart_id)) = 2
    /\ out.n2 = 3
    /\ Cardinality(TicketsOfOrder(out.n1)) = 3

(* ------------------------------------------------------------------ *)
(* Seat attachment                                                     *)
(* ------------------------------------------------------------------ *)

(* the seats the tickets of a list of items are to carry, ticket by ticket:
   the i-th seat of the item's list, none for an item without a list *)
RECURSIVE ExpectedSeats(_)
ExpectedSeats(its) ==
    IF its = <<>> THEN <<>>
    ELSE [i \in 1..its[1].quantity |->
             IF its[1].seat_numbers = <<>> THEN Null ELSE its[1].seat_numbers[i]]
         \o ExpectedSeats(Tail(its))

(* the seats carried by the tickets of order oid, in the order of issue *)
SeatsOfTickets(oid) ==
    LET ts == SelectSeq(tickets, LAMBDA t : t.order_id = oid)
    IN  [j \in 1..Len(ts) |-> ts[j].seat]

(* C32: when completeCheckout has answered success, the i-th ticket issued for
   a cart item with a seat list carries the i-th seat of the list, and the
   tickets of an item without a seat list carry no seat. *)
C32_SeatAttachment ==
    (out.op = "complete" /\ out.code = 200) =>
        SeatsOfTickets(out.n1) = ExpectedSeats(CartItems(checkouts[out.rid].cart_id))

(* ------------------------------------------------------------------ *)
(* Downstream failures                                                 *)
(* ------------------------------------------------------------------ *)

(* the customer's cart and a guest cart, each with its items, and the
   customer's completed payment *)
DownstreamInit ==
    /\ now = 0
    /\ seats = [s \in Seats |-> SeatRow("available", 0, 0)]
    /\ reservations = <<>>
    /\ payments = <<PaidPayment("u1", 20, "ecocash")>>
    /\ procs = [p \in Procs |-> Idle]
    /\ out = NoOut
    /\ carts = <<CartRow("u1", FALSE, 20), CartRow(Null, TRUE, 15)>>
    /\ items = <<ItemRow(1, 1, 2, 10), ItemRow(2, 2, 1, 15)>>
    /\ checkouts = <<>>
    /\ orders = <<>>
    /\ tickets = <<>>
    /\ verifications = <<>>

(* both checkout paths, one request at a time, with earnings and emails that
   fail or not *)
DownstreamNext ==
    \/ InitiateCall(1, "u1", TRUE)
    \/ InitiateInsert(1)
    \/ \E cid \in 1..MaxCheckouts, pid \in 1..MaxPay : CompleteCall(1, "u1", cid, pid)
    \/ CompletePayment(1)
    \/ CompleteItems(1)
    \/ CompleteOrder(1)
    \/ \E earningsFail \in BOOLEAN : CompleteTicketsWith(1, earningsFail)
    \/ CompleteUpdate(1)
    \/ CompleteCart(1)
    \/ \E c \in 1..MaxCarts : GuestInitiateCall(1, c, TRUE, TRUE)
    \/ GuestInitiateInsert(1)
    \/ \E c \in 1..MaxCarts, b \in Billings : GuestCompleteCall(1, c, b)
    \/ GuestCompleteTickets(1)
    \/ \E k \in Codes, emailFails \in BOOLEAN : GuestCompleteCartWith(1, k, emailFails)

DownstreamSpec == DownstreamInit /\ [][DownstreamNext]_vars

(* the cart a completion answered for, and its sessions that are completed
   with an order *)
CompletedCart == IF out.op = "complete" THEN checkouts[out.rid].cart_id ELSE out.rid

CompletedSessions(c) ==
    {k \in 1..Len(checkouts) : /\ checkouts[k].cart_id = c
                               /\ checkouts[k].status = "completed"
                               /\ checkouts[k].order_id \in OrdersOf(k)}

(* a completion in which addEarnings or the email send failed has answered *)
FailedDownstream == out.op \in {"complete", "guestComplete"} /\ out.failed

(* the authenticated half: with failed earnings completeCheckout still answers
   success, and order, tickets, session and cart are in place *)
EarningsFailureSwallowed ==
    (FailedDownstream /\ out.op = "complete") =>
        /\ out.code = 200
        /\ CompletedSessions(CompletedCart) # {}
        /\ carts[CompletedCart].status = "completed"
        /\ Cardinality(TicketsOfOrder(out.n1)) = Quantity(CartItems(CompletedCart))

(* the failure handling of the guest half: with a failed email
   completeGuestCheckout still answers success, with tickets issued and the
   cart completed *)
EmailFailureSwallowed ==
    (FailedDownstream /\ out.op = "guestComplete") =>
        /\ out.code = 200
        /\ carts[CompletedCart].status = "completed"
        /\ Cardinality(GuestTickets) >= Quantity(CartItems(CompletedCart))

(* C33: when addEarnings or the confirmation email failed during a completion,
   completeCheckout / completeGuestCheckout has answered success, a session of
   the cart is completed with its order, the cart is completed and its tickets
   exist. *)
C33_DownstreamFailures ==
    FailedDownstream =>
        /\ out.code = 200
        /\ CompletedSessions(CompletedCart) # {}
        /\ carts[CompletedCart].status = "completed"
        /\ Len(tickets) >= Quantity(CartItems(CompletedCart))

(* ------------------------------------------------------------------ *)
(* Repeated seat ids                                                   *)
(* ------------------------------------------------------------------ *)

(* the list names some seat more than once *)
HasDuplicates(ids) == Len(ids) > Cardinality(Range(ids))

(* C34: duplicate seat ids count once.  A reserve request for an existing
   event whose list repeats an id is refused only when one of the distinct
   seats it names is not available (a refusal changes no seat), and when it
   is accepted every distinct seat is reserved under the new reservation. *)
C34_DuplicatesCountOnce ==
    (out.op = "reserve" /\ HasDuplicates(out.ids) /\ out.code # 404) =>
        IF out.code = 201
        THEN \A x \in Range(out.ids) :
                seats[x].status = "reserved" /\ seats[x].reservation_id = out.rid
        ELSE \E x \in Range(out.ids) : seats[x].status # "available"

(* ------------------------------------------------------------------ *)
(* Confirm racing release                                              *)
(* ------------------------------------------------------------------ *)

(* release and confirm of the holder on the reservation of SeatOrderInit, as
   concurrent requests *)
ConfirmRaceNext ==
    \/ \E p \in Procs, rid \in 1..MaxRes : ReleaseCall(p, "u1", rid)
    \/ \E p \in Procs, rid \in 1..MaxRes, pid \in 1..MaxPay : ConfirmCall(p, "u1", rid, pid)
    \/ \E p \in Procs : ReleaseSeats(p)
    \/ \E p \in Procs : ReleaseReservation(p)
    \/ \E p \in Procs : ConfirmSeats(p)
    \/ \E p \in Procs : ConfirmReservation(p)

ConfirmRaceSpec == SeatOrderInit /\ [][ConfirmRaceNext]_vars

(* C35: confirm racing release ends in one of the two outcomes.  Once no
   request is running, a confirmed reservation has all its seats sold and a
   released or expired reservation has all its seats available. *)
C35_ConfirmRacesRelease ==
    (\A p \in Procs : procs[p].pc = "idle") =>
        \A r \in 1..Len(reservations) :
            /\ reservations[r].status = "confirmed"
                  => \A x \in Range(reservations[r].seat_ids) : seats[x].status = "sold"
            /\ reservations[r].status \in {"released", "expired"}
                  => \A x \in Range(reservations[r].seat_ids) : seats[x].status = "available"

(* ------------------------------------------------------------------ *)
(* Orders and completed sessions                                       *)
(* ------------------------------------------------------------------ *)

(* no completeCheckout is between its checks and its answer *)
NoCompletionInFlight ==
    InFlight({"cc_payment", "cc_items", "cc_order", "cc_tickets", "cc_checkout", "cc_cart"}) = {}

(* C36: an order exists only for a completed session.  Whenever no completion
   is in flight, a checkout session has an order if and only if its status is
   completed with order_id set to that order, and it has tickets only then. *)
C36_OrderOnlyIfCompleted ==
    NoCompletionInFlight =>
        \A c \in 1..Len(checkouts) :
            /\ OrdersOf(c) # {}
                 <=> (checkouts[c].status = "completed" /\ checkouts[c].order_id \in OrdersOf(c))
            /\ TicketsOf(c) # {} => checkouts[c].status = "completed"

(* ------------------------------------------------------------------ *)
(* Cart items under a checkout session                                 *)
(* ------------------------------------------------------------------ *)

(* the carts a pending checkout session has been initiated for *)
CartsInCheckout == {checkouts[c].cart_id : c \in {k \in 1..Len(checkouts) :
                                                     checkouts[k].status = "pending"}}

(* C37: cart items are immutable once snapshotted.  No step adds, removes or
   changes an item of a cart for which a checkout session is pending. *)
C37_ItemsFrozen ==
    [][ \A c \in CartsInCheckout :
           SelectSeq(items', LAMBDA it : it.cart_id = c) = CartItems(c)
      ]_vars

(* ------------------------------------------------------------------ *)
(* Item prices                                                         *)
(* ------------------------------------------------------------------ *)

(* C38: every cart item has total_price = unit_price * quantity, in every
   reachable state. *)
C38_ItemTotalPrice ==
    \A k \in 1..Len(items) : items[k].total_price = items[k].unit_price * items[k].quantity

(* ------------------------------------------------------------------ *)
(* Holder isolation                                                    *)
(* ------------------------------------------------------------------ *)

(* two customers, each with a pending reservation and a cart with one item;
   the payment of the first has completed *)
IsolationInit ==
    /\ now = 0
    /\ seats = [s \in Seats |-> IF s = "A" THEN SeatRow("reserved", 1, 0)
                                ELSE SeatRow("reserved", 2, 0)]
    /\ reservations = <<[user_id |-> "u1", seat_ids |-> <<"A">>, status |-> "pending",
                         expires_at |-> ReservationTTL, payment_id |-> 0],
                        [user_id |-> "u2", seat_ids |-> <<"B">>, status |-> "pending",
                         expires_at |-> ReservationTTL, payment_id |-> 0]>>
    /\ payments = <<PaidPayment("u1", 20, "ecocash")>>
    /\ procs = [p \in Procs |-> Idle]
    /\ out = NoOut
    /\ carts = <<CartRow("u1", FALSE, 20), CartRow("u2", FALSE, 15)>>
    /\ items = <<ItemRow(1, 1, 2, 10), ItemRow(2, 2, 1, 15)>>
    /\ checkouts = <<>>
    /\ orders = <<>>
    /\ tickets = <<>>
    /\ verifications = <<>>

(* release, confirm, complete and cancel called by either customer with any
   reservation, session and payment id, one request at a time; each customer
   opens one session *)
IsolationNext ==
    \/ \E u \in Users, rid \in 1..MaxRes : ReleaseCall(1, u, rid)
    \/ \E u \in Users, rid \in 1..MaxRes, pid \in 1..MaxPay : ConfirmCall(1, u, rid, pid)
    \/ ReleaseSeats(1) \/ ReleaseReservation(1)
    \/ ConfirmSeats(1) \/ ConfirmReservation(1)
    \/ \E u \in Users : (\A c \in 1..Len(checkouts) : checkouts[c].user_id # u)
                          /\ InitiateCall(1, u, TRUE)
    \/ InitiateInsert(1)
    \/ \E u \in Users, cid \in 1..MaxCheckouts, pid \in 1..MaxPay : CompleteCall(1, u, cid, pid)
    \/ CompleteStep(1)
    \/ \E u \in Users, cid \in 1..MaxCheckouts : CancelCall(1, u, cid)
    \/ CancelUpdate(1)

IsolationSpec == IsolationInit /\ [][IsolationNext]_vars

(* the reservation, session or payment exists and belongs to someone else *)
OthersReservation(rid, u) == rid \in 1..Len(reservations) /\ reservations[rid].user_id # u

OthersSession(cid, u) == cid \in 1..Len(checkouts) /\ checkouts[cid].user_id # u

OthersPayment(pid, u) == pid \in 1..Len(payments) /\ payments[pid].user_id # u

(* the call was refused with this answer and no table and no handler changed *)
Refused(op, codes, msgs) ==
    /\ out'.op = op /\ out'.code \in codes /\ out'.msg \in msgs
    /\ UNCHANGED <<seatVars, payments, shopVars>>
    /\ \A p \in Procs : procs'[p].pc = "idle"

(* C39: holder isolation.  A release or confirm naming another user's
   reservation, a confirm or completeCheckout naming another user's payment,
   and a completeCheckout or cancelCheckout naming another user's session is
   refused as not found and changes no table. *)
C39_HolderIsolation ==
    [][ \A u \in Users :
          /\ \A rid \in 1..MaxRes :
                (OthersReservation(rid, u) /\ ReleaseCall(1, u, rid))
                => Refused("release", {404}, {"Reservation not found"})
          /\ \A rid \in 1..MaxRes, pid \in 1..MaxPay :
                ((OthersReservation(rid, u) \/ OthersPayment(pid, u)) /\ ConfirmCall(1, u, rid, pid))
                => Refused("confirm", {404}, {"Reservation not found", "Payment not found"})
          /\ \A cid \in 1..MaxCheckouts, pid \in 1..MaxPay :
                (OthersSession(cid, u) /\ CompleteCall(1, u, cid, pid))
                => Refused("complete", {400}, {"Checkout not found or already processed"})
          /\ (/\ procs[1].user = u
              /\ OthersPayment(procs[1].pid, u)
              /\ CompletePayment(1))
                => Refused("complete", {400}, {"Payment not found or not completed"})
          /\ \A cid \in 1..MaxCheckouts :
                (OthersSession(cid, u) /\ CancelCall(1, u, cid))
                => Refused("cancel", {404}, {"Checkout not found"})
      ]_vars

(* the second customer's release of the first customer's pending reservation
   has been refused *)
C39_Witness ==
    /\ out.op = "release" /\ out.code = 404
    /\ out.rid \in 1..Len(reservations)
    /\ reservations[out.rid].user_id = "u1"
    /\ reservations[out.rid].status = "pending"
    /\ \E c \in 1..Len(checkouts) : checkouts[c].user_id = "u2"

====
